---- MODULE Spec2Model ----
(***************************************************************************)
(* A model of upbuild (whitty/upbuild.rs): the task model and the manifest *)
(* parser (src/file.rs), and the execution engine (src/exec.rs).           *)
(*                                                                         *)
(* Strings are TLA+ strings; TLC evaluates Len, \o and SubSeq on them, so  *)
(* splitting and prefix tests are computed character by character.         *)
(* Option<T> is a sequence of length 0 (None) or 1 (Some).                 *)
(***************************************************************************)
EXTENDS Integers, Sequences, FiniteSets, TLC

VARIABLES
    \* ---- one evaluation of a pure function of the task model
    fn,             \* the function under evaluation ("" when none)
    input,          \* its arguments
    output,         \* None before the call, Some(result) after it
    \* ---- Exec::run(path, file, cfg, provided_args)
    path,           \* the manifest path
    file,           \* ClassicFile: [header, commands]
    cfg,            \* Config: [select, reject, skip_env, argv0]
    provided_args,  \* the passthrough arguments
    pc,             \* position inside Exec::run
    idx,            \* index of `cmd` in file.commands (the for loop)
    last_dir,       \* the local last_dir
    calls,          \* the calls made on the Runner and the returns of
                    \* Runner::run so far, in order
    result,         \* None while running, Some(return value) after
    \* ---- ClassicFile::parse_lines(lines)
    lines,          \* the lines of the manifest
    lineno,         \* how many of them the for loop has taken
    entry,          \* the local entry: the open task, if any
    entries,        \* the local entries: the closed tasks
    header_state,   \* the local header_state
    header,         \* the local header
    parsed          \* None while parsing, Some(return value) after

pure_vars == <<fn, input, output>>
exec_vars == <<path, file, cfg, provided_args, pc, idx, last_dir, calls, result>>
parse_vars == <<lines, lineno, entry, entries, header_state, header, parsed>>
vars == <<fn, input, output, path, file, cfg, provided_args, pc, idx, last_dir,
          calls, result, lines, lineno, entry, entries, header_state, header,
          parsed>>

----------------------------------------------------------------------------
(* Option<T> *)

None == << >>

Some(x) == << x >>

is_some(o) == Len(o) = 1

is_none(o) == Len(o) = 0

unwrap(o) == o[1]

----------------------------------------------------------------------------
(* std::path as used by the engine: a path is its string; equality is      *)
(* equality of the component lists, as for Rust's PartialEq for Path.      *)

SEP == "/"

char_at(s, i) == SubSeq(s, i, i)

\* the pieces of s between separators, empty pieces included
RECURSIVE split_from(_, _, _, _)
split_from(s, sep, i, start) ==
    IF i > Len(s) THEN << SubSeq(s, start, Len(s)) >>
    ELSE IF char_at(s, i) = sep
         THEN << SubSeq(s, start, i - 1) >> \o split_from(s, sep, i + 1, i + 1)
         ELSE split_from(s, sep, i + 1, start)

split(s, sep) == split_from(s, sep, 1, 1)

is_absolute(p) == Len(p) > 0 /\ char_at(p, 1) = SEP

RECURSIVE normal_components(_, _, _)
\* the pieces from the i-th on that are components: a leading "." of a
\* relative path is kept, other "." and empty pieces (repeated or trailing
\* separators) are dropped
normal_components(raw, i, rooted) ==
    IF i > Len(raw) THEN << >>
    ELSE LET c == raw[i]
             keep == c # "" /\ (c # "." \/ (i = 1 /\ ~rooted))
         IN (IF keep THEN << c >> ELSE << >>) \o normal_components(raw, i + 1, rooted)

\* Path::components: RootDir is "/"
components(p) ==
    IF is_absolute(p) THEN << SEP >> \o normal_components(split(p, SEP), 1, TRUE)
    ELSE normal_components(split(p, SEP), 1, FALSE)

path_eq(a, b) == components(a) = components(b)

\* Option<PathBuf> == Option<PathBuf>
opt_path_eq(a, b) ==
    \/ is_none(a) /\ is_none(b)
    \/ is_some(a) /\ is_some(b) /\ path_eq(unwrap(a), unwrap(b))

RECURSIVE render(_)
render(comps) ==
    IF comps = << >> THEN ""
    ELSE IF Len(comps) = 1 THEN comps[1]
    ELSE IF comps[1] = SEP THEN SEP \o render(Tail(comps))
    ELSE comps[1] \o SEP \o render(Tail(comps))

\* Path::parent: None for the root and for the empty path
parent(p) ==
    LET c == components(p)
    IN IF c = << >> \/ c[Len(c)] = SEP THEN None
       ELSE Some(render(SubSeq(c, 1, Len(c) - 1)))

\* Path::join (PathBuf::push): an absolute right-hand side replaces the left
join(m, d) ==
    IF is_absolute(d) THEN d
    ELSE IF m = "" THEN d
    ELSE IF char_at(m, Len(m)) = SEP THEN m \o d
    ELSE m \o SEP \o d

----------------------------------------------------------------------------
(* src/file.rs: Cmd *)

EmptyMap == << >>

\* a mutant of Cmd::new: the task starts without its executable
CmdNew_no_exe(exe) ==
    [ args     |-> << >>,
      tags     |-> {},
      cd       |-> None,
      mkdir    |-> None,
      outfile  |-> None,
      retmap   |-> EmptyMap,
      disabled |-> FALSE,
      manual   |-> FALSE,
      recurse  |-> (exe = "upbuild"),
      dotenvs  |-> << >> ]

\* Cmd::new
CmdNew(exe) ==
    [ args     |-> << exe >>,
      tags     |-> {},
      cd       |-> None,
      mkdir    |-> None,
      outfile  |-> None,
      retmap   |-> EmptyMap,
      disabled |-> FALSE,
      manual   |-> FALSE,
      recurse  |-> (exe = "upbuild"),
      dotenvs  |-> << >> ]

\* Cmd::append_arg
append_arg(cmd, arg) == [cmd EXCEPT !.args = Append(@, arg)]

\* HashSet::is_disjoint
is_disjoint(a, b) == a \cap b = {}

\* a mutant of enabled_with_reject: the reject test is lost
enabled_without_reject(cmd, select_tags, reject_tags) ==
    IF cmd.disabled THEN FALSE
    ELSE LET no_tags == select_tags = {}
         IN IF cmd.manual /\ (no_tags \/ is_disjoint(select_tags, cmd.tags))
            THEN FALSE
            ELSE IF ~no_tags THEN ~is_disjoint(select_tags, cmd.tags)
            ELSE TRUE

\* Cmd::enabled_with_reject
enabled_with_reject(cmd, select_tags, reject_tags) ==
    IF cmd.disabled THEN FALSE
    ELSE IF ~is_disjoint(reject_tags, cmd.tags) THEN FALSE
    ELSE LET no_tags == select_tags = {}
         IN IF cmd.manual /\ (no_tags \/ is_disjoint(select_tags, cmd.tags))
            THEN FALSE
            ELSE IF ~no_tags THEN ~is_disjoint(select_tags, cmd.tags)
            ELSE TRUE

\* a mutant of map_code: a code mapped to 0 is not looked up
map_code_skip_zero(cmd, c) ==
    IF c \in DOMAIN cmd.retmap /\ cmd.retmap[c] # 0 THEN cmd.retmap[c] ELSE c

\* Cmd::map_code
map_code(cmd, c) ==
    IF c \in DOMAIN cmd.retmap THEN cmd.retmap[c] ELSE c

\* a mutant of directory: a recurse task runs in the parent whatever its @cd
directory_recurse_first(cmd) ==
    IF cmd.recurse THEN Some("..")
    ELSE IF is_some(cmd.cd) THEN Some(unwrap(cmd.cd))
    ELSE None

\* Cmd::directory
directory(cmd) ==
    IF is_some(cmd.cd) THEN Some(unwrap(cmd.cd))
    ELSE IF cmd.recurse THEN Some("..")
    ELSE None

\* a mutant of mk_dir: the target is taken relative to the task's @cd
mk_dir_under_cd(cmd) ==
    IF is_some(cmd.mkdir) /\ is_some(cmd.cd)
    THEN Some(join(unwrap(cmd.cd), unwrap(cmd.mkdir)))
    ELSE cmd.mkdir

\* Cmd::mk_dir
mk_dir(cmd) == cmd.mkdir

\* a mutant of out_file: the @outfile of a task is forgotten
out_file_never(cmd) == None

\* Cmd::out_file
out_file(cmd) == cmd.outfile

----------------------------------------------------------------------------
(* src/exec.rs: helpers of Exec *)

\* The file system std::fs::canonicalize sees: the current directory and the
\* directories that exist, all as component lists of absolute paths.
Cwd == << SEP, "w", "proj" >>

FsDirs == { << SEP >>, << SEP, "w" >>, << SEP, "w", "proj" >>,
            << SEP, "w", "proj", "sub" >>, << SEP, "b" >> }

RECURSIVE resolve(_, _)
\* walks comps from acc; << >> as soon as a directory on the way is missing
resolve(acc, comps) ==
    IF acc \notin FsDirs THEN << >>
    ELSE IF comps = << >> THEN acc
    ELSE LET c == Head(comps)
         IN IF c = SEP THEN resolve(<< SEP >>, Tail(comps))
            ELSE IF c = "." THEN resolve(acc, Tail(comps))
            ELSE IF c = ".."
                 THEN resolve(IF Len(acc) > 1 THEN SubSeq(acc, 1, Len(acc) - 1) ELSE acc,
                              Tail(comps))
            ELSE resolve(Append(acc, c), Tail(comps))

\* Path::canonicalize: Some(absolute path) when the directory exists
canonicalize(d) ==
    LET full == resolve(Cwd, components(d))
    IN IF d # "" /\ full # << >> THEN Some(render(full)) ELSE None

\* Exec::relative_dir
relative_dir(p) ==
    LET par == parent(p)
    IN IF is_some(par)
       THEN IF path_eq(unwrap(par), ".") \/ path_eq(unwrap(par), "")
            THEN None
            ELSE Some(unwrap(par))
       ELSE None

\* Runner::on_enter_dir as seen by the Runner
EnterCall(dir) == [op |-> "on_enter_dir", dir |-> dir]

\* Exec::show_entering: the Runner calls it makes
show_entering(working_dir) ==
    IF is_some(working_dir)
    THEN LET d == unwrap(working_dir)
             dd == canonicalize(d)
             dir == IF is_some(dd) THEN unwrap(dd) ELSE d
         IN << EnterCall(dir) >>
    ELSE << >>

\* a mutant of show_entering_always: no notice for the current directory
show_entering_some(working_dir) == show_entering(working_dir)

\* Exec::show_entering_always
show_entering_always(working_dir) ==
    IF is_none(working_dir) THEN show_entering(Some("."))
    ELSE show_entering(working_dir)

\* a mutant of run_dir: the base directory is not joined
run_dir_no_join(main_working_dir, cmd_dir) ==
    IF is_some(cmd_dir) THEN cmd_dir ELSE main_working_dir

\* Exec::run_dir
run_dir(main_working_dir, cmd_dir) ==
    IF is_some(cmd_dir)
    THEN IF is_some(main_working_dir)
         THEN Some(join(unwrap(main_working_dir), unwrap(cmd_dir)))
         ELSE Some(unwrap(cmd_dir))
    ELSE main_working_dir

RECURSIVE filter_first_separator(_)
\* the closure of with_args' filter: drops the first "--" only
filter_first_separator(s) ==
    IF s = << >> THEN << >>
    ELSE IF Head(s) = "--" THEN Tail(s)
    ELSE << Head(s) >> \o filter_first_separator(Tail(s))

RECURSIVE take_while_not_separator(_)
\* with_args' take_while(|x| x != "--")
take_while_not_separator(s) ==
    IF s = << >> THEN << >>
    ELSE IF Head(s) = "--" THEN << >>
    ELSE << Head(s) >> \o take_while_not_separator(Tail(s))

RECURSIVE filter_every_separator(_)
filter_every_separator(s) ==
    IF s = << >> THEN << >>
    ELSE IF Head(s) = "--" THEN filter_every_separator(Tail(s))
    ELSE << Head(s) >> \o filter_every_separator(Tail(s))

\* a mutant of with_args: without passthrough arguments every "--" is dropped
with_args_drop_every(args, provided, argv0) ==
    LET skip == IF is_some(argv0) THEN 1 ELSE 0
        chained == argv0 \o SubSeq(args, skip + 1, Len(args))
    IN IF provided = << >>
       THEN filter_every_separator(chained)
       ELSE take_while_not_separator(chained) \o provided

\* a mutant of with_args: the arguments are cut at "--" in both branches
with_args_truncate(args, provided, argv0) ==
    LET skip == IF is_some(argv0) THEN 1 ELSE 0
        chained == argv0 \o SubSeq(args, skip + 1, Len(args))
    IN take_while_not_separator(chained) \o provided

\* a mutant of with_args: passthrough arguments are appended to everything
with_args_keep_tail(args, provided, argv0) ==
    LET skip == IF is_some(argv0) THEN 1 ELSE 0
        chained == argv0 \o SubSeq(args, skip + 1, Len(args))
    IN filter_first_separator(chained) \o provided

\* Exec::with_args
with_args(args, provided, argv0) ==
    LET skip == IF is_some(argv0) THEN 1 ELSE 0
        chained == argv0 \o SubSeq(args, skip + 1, Len(args))
    IN IF provided = << >>
       THEN filter_first_separator(chained)
       ELSE take_while_not_separator(chained) \o provided

\* a mutant of resolve_args: argv0 is substituted for every task
resolve_args_always(cmd, provided, argv0) ==
    with_args(cmd.args, provided, Some(argv0))

\* Exec::run, lines 136-142: the arguments handed to the Runner for cmd
resolve_args(cmd, provided, argv0) ==
    with_args(cmd.args, provided, IF cmd.recurse THEN Some(argv0) ELSE None)

----------------------------------------------------------------------------
(* src/exec.rs: Exec::run as a state machine.  The Runner is the            *)
(* environment: every call made on it is appended to `calls`, and what it  *)
(* returns is an input of the action that makes the call.                  *)

\* Result<()> of Exec::run and Result<RetCode> of Runner::run
Ok(c) == [kind |-> "Ok", code |-> c]

Err(kind, c) == [kind |-> kind, code |-> c]

\* the local main_working_dir of Exec::run
main_working_dir == relative_dir(path)

\* the `cmd` of the current iteration of the for loop
cmd_at(i) == file.commands[i]

\* a mutant of header_loads: the default file is loaded before the declared
header_loads_default_first ==
    << [name |-> ".upbuild.env", allow_missing |-> TRUE] >> \o
        [i \in 1..Len(file.header.dotenvs) |->
            [name |-> file.header.dotenvs[i], allow_missing |-> FALSE]]

\* the header-level loads of apply_header, in order
header_loads ==
    IF ~cfg.skip_env /\ file.header.dotenvs = << >>
    THEN << [name |-> ".upbuild.env", allow_missing |-> TRUE] >>
    ELSE [i \in 1..Len(file.header.dotenvs) |->
            [name |-> file.header.dotenvs[i], allow_missing |-> FALSE]]

\* the notices of one show_entering call, labelled with the iteration that
\* made them (0: before the loop)
notices(cs, i) ==
    [k \in 1..Len(cs) |-> [op |-> cs[k].op, task |-> i, dir |-> cs[k].dir]]

\* Exec::apply_header (called at line 124): `good` loads succeed; when that
\* is not all of them the next one fails and `?` returns its error
ApplyHeader ==
    /\ pc = "apply_header"
    /\ \E good \in 0..Len(header_loads) :
         LET n == Len(header_loads)
             made == IF good < n THEN good + 1 ELSE n
         IN /\ calls' = calls \o
                   [i \in 1..made |->
                      [op |-> "load_global_dotenv_", task |-> 0,
                       name |-> header_loads[i].name,
                       allow_missing |-> header_loads[i].allow_missing,
                       res |-> IF i <= good THEN "Ok" ELSE "Err"]]
            /\ IF good < n
               THEN /\ result' = Some(Err("Dotenv", 0))
                    /\ pc' = "done"
               ELSE /\ result' = result
                    /\ pc' = "show_entering"
    /\ UNCHANGED <<path, file, cfg, provided_args, idx, last_dir>>
    /\ UNCHANGED pure_vars
    /\ UNCHANGED parse_vars

\* Exec::run lines 126-129: the notice for the manifest's own directory
EnterMain ==
    /\ pc = "show_entering"
    /\ calls' = calls \o notices(show_entering(main_working_dir), 0)
    /\ last_dir' = main_working_dir
    /\ idx' = 1
    /\ pc' = "loop"
    /\ UNCHANGED <<path, file, cfg, provided_args, result>>
    /\ UNCHANGED pure_vars
    /\ UNCHANGED parse_vars

\* Exec::run lines 133-135: a task that is not enabled is passed over
SkipCmd ==
    /\ pc = "loop"
    /\ idx <= Len(file.commands)
    /\ ~enabled_with_reject(cmd_at(idx), cfg.select, cfg.reject)
    /\ idx' = idx + 1
    /\ UNCHANGED <<path, file, cfg, provided_args, pc, last_dir, calls, result>>
    /\ UNCHANGED pure_vars
    /\ UNCHANGED parse_vars

\* a mutant of mkdir_error: a failed creation is returned like other errors
mkdir_error_returned(res) ==
    IF res = "Err" THEN Some([kind |-> "IoFailed", code |-> 0]) ELSE None

\* Exec::run lines 147-149: `if let Err(x) = check_mkdir(&d) { eprintln!(..) }`,
\* the error Exec::run returns because of the outcome of check_mkdir
mkdir_error(res) == None

\* a mutant of start_calls: the command is started before the directory is
\* created and the notice emitted
start_calls_run_first(made, entered, run) == << run >> \o made \o entered

\* Exec::run lines 144-161: the Runner calls of one task up to Runner::run,
\* in the order of the statements that make them
start_calls(made, entered, run) == made \o entered \o << run >>

\* Exec::run lines 136-161, up to the call of Runner::run
StartCmd ==
    /\ pc = "loop"
    /\ idx <= Len(file.commands)
    /\ enabled_with_reject(cmd_at(idx), cfg.select, cfg.reject)
    /\ LET cmd == cmd_at(idx)
           args == resolve_args(cmd, provided_args, cfg.argv0)
           mk == run_dir(main_working_dir, mk_dir(cmd))
           cmd_dir == directory(cmd)
           rd == run_dir(main_working_dir, cmd_dir)
           moved == ~opt_path_eq(rd, last_dir)
           creates == is_some(mk_dir(cmd)) /\ is_some(mk)
       IN \E mk_res \in IF creates THEN {"Ok", "Err"} ELSE {"Ok"} :
            LET made == IF creates
                        THEN << [op |-> "check_mkdir", task |-> idx,
                                 d |-> unwrap(mk), res |-> mk_res] >>
                        ELSE << >>
                failed == IF creates THEN mkdir_error(mk_res) ELSE None
            IN IF is_some(failed)
               THEN /\ calls' = calls \o made
                    /\ result' = failed
                    /\ pc' = "done"
                    /\ last_dir' = last_dir
               ELSE /\ calls' = calls \o
                         start_calls(made,
                                     IF moved
                                     THEN notices(show_entering_always(rd), idx)
                                     ELSE << >>,
                                     [op |-> "run", task |-> idx, cmd |-> args,
                                      cd |-> rd])
                    /\ result' = result
                    /\ pc' = "running"
                    /\ last_dir' = IF moved THEN rd ELSE last_dir
    /\ UNCHANGED <<path, file, cfg, provided_args, idx>>
    /\ UNCHANGED pure_vars
    /\ UNCHANGED parse_vars

\* what Runner::run may return
RawCodes == {0, 1, 2}

RunResults ==
    {Ok(c) : c \in RawCodes} \cup {Err("FailedToExec", 0), Err("ExitWithSignal", 6)}

\* a mutant of aborts: a mapped code never ends the run
aborts_never(c) == FALSE

\* Exec::run line 163: `if c != 0`
aborts(c) == c # 0

\* a mutant of is_err: the `?` of line 161 lets an error through
is_err_never(r) == FALSE

\* Exec::run line 161: the `?` applied to what Runner::run returns
is_err(r) == r.kind # "Ok"

\* a mutant of as_path: the outfile is looked up under the base directory
as_path_under_base(p) ==
    IF is_some(main_working_dir) THEN join(unwrap(main_working_dir), p) ELSE p

\* Exec::run line 168: PathBuf::as_path borrows the path as it is
as_path(p) == p

\* Exec::run lines 161-170: Runner::run returns
FinishCmd ==
    /\ pc = "running"
    /\ \E r \in RunResults, out_res \in {"Ok", "Err"} :
         LET cmd == cmd_at(idx)
             c == map_code(cmd, r.code)
             ret == [op |-> "run_returned", task |-> idx, res |-> r]
         IN IF is_err(r)
            THEN /\ out_res = "Ok"
                 /\ calls' = Append(calls, ret)
                 /\ result' = Some(r)
                 /\ pc' = "done"
                 /\ idx' = idx
            ELSE IF aborts(c)
            THEN /\ out_res = "Ok"
                 /\ calls' = Append(calls, ret)
                 /\ result' = Some(Err("ExitWithExitCode", c))
                 /\ pc' = "done"
                 /\ idx' = idx
            ELSE IF is_some(out_file(cmd))
            THEN /\ calls' = calls \o
                       << ret, [op |-> "display_output", task |-> idx,
                                file |-> as_path(unwrap(out_file(cmd))),
                                res |-> out_res] >>
                 /\ IF out_res = "Ok"
                    THEN /\ result' = result
                         /\ pc' = "loop"
                         /\ idx' = idx + 1
                    ELSE /\ result' = Some(Err("UnableToReadOutfile", 0))
                         /\ pc' = "done"
                         /\ idx' = idx
            ELSE /\ out_res = "Ok"
                 /\ calls' = Append(calls, ret)
                 /\ result' = result
                 /\ pc' = "loop"
                 /\ idx' = idx + 1
    /\ UNCHANGED <<path, file, cfg, provided_args, last_dir>>
    /\ UNCHANGED pure_vars
    /\ UNCHANGED parse_vars

\* Exec::run line 172
ReturnOk ==
    /\ pc = "loop"
    /\ idx > Len(file.commands)
    /\ result' = Some(Ok(0))
    /\ pc' = "done"
    /\ UNCHANGED <<path, file, cfg, provided_args, idx, last_dir, calls>>
    /\ UNCHANGED pure_vars
    /\ UNCHANGED parse_vars

----------------------------------------------------------------------------
(* The manifests and invocations Exec::run is explored on.  Tasks are built *)
(* as parse_lines builds them: Cmd::new on the first line, then appended   *)
(* arguments and flag assignments (src/file.rs lines 245-268).             *)

MaxTasks == 2

make == CmdNew("make")

upbuild == CmdNew("upbuild")

\* tasks that differ in what selects them; the disabled one carries every
\* flag that has an effect when a task is executed
SelectionCmds ==
    { [make EXCEPT !.tags = {"host"}],
      [make EXCEPT !.tags = {"host"}, !.manual = TRUE],
      [make EXCEPT !.disabled = TRUE, !.cd = Some("/abs"), !.mkdir = Some("build"),
                   !.outfile = Some("log.txt")] }

\* tasks that differ in where they run
DirectoryCmds ==
    { [make EXCEPT !.cd = Some("sub"), !.mkdir = Some("build"),
                   !.outfile = Some("out.txt")],
      [make EXCEPT !.cd = Some("/abs")],
      [make EXCEPT !.mkdir = Some("build")],
      append_arg(append_arg(upbuild, "--"), "x"),
      [upbuild EXCEPT !.cd = Some("/abs")] }

\* tasks that differ in how their return code is treated
ResultCmds ==
    { [append_arg(append_arg(append_arg(make, "-j8"), "--"), "test")
          EXCEPT !.retmap = (1 :> 0), !.outfile = Some("log.txt")],
      [make EXCEPT !.retmap = (0 :> 3)] }

\* a task with its own environment file
EnvCmds ==
    { [append_arg(make, "all") EXCEPT !.dotenvs = << "task.env" >>] }

Cmds == {make} \cup SelectionCmds \cup DirectoryCmds \cup ResultCmds \cup EnvCmds

Manifests == UNION { [1..n -> Cmds] : n \in 1..MaxTasks }

DefaultSetup ==
    [ path |-> "./.upbuild", select |-> {}, reject |-> {}, skip_env |-> FALSE,
      dotenvs |-> << >>, provided_args |-> << >> ]

\* invocations: where the manifest was found, what is selected, what is
\* passed through, and which environment files the header declares
Setups ==
    { DefaultSetup,
      [DefaultSetup EXCEPT !.path = ".upbuild", !.provided_args = << "all", "tests" >>],
      [DefaultSetup EXCEPT !.path = "./../.upbuild"],
      [DefaultSetup EXCEPT !.path = "./../../.upbuild",
                           !.dotenvs = << "a.env", "b.env" >>],
      [DefaultSetup EXCEPT !.select = {"host"}],
      [DefaultSetup EXCEPT !.reject = {"host"}],
      [DefaultSetup EXCEPT !.skip_env = TRUE],
      [DefaultSetup EXCEPT !.skip_env = TRUE, !.dotenvs = << "a.env" >>] }

PureIdle == fn = "" /\ input = << >> /\ output = None

\* no manifest is being parsed
ParseIdle ==
    /\ lines = << >>
    /\ lineno = 0
    /\ entry = None
    /\ entries = << >>
    /\ header_state = "Unknown"
    /\ header = [dotenvs |-> << >>]
    /\ parsed = None

Init ==
    /\ PureIdle
    /\ ParseIdle
    /\ \E s \in Setups, m \in Manifests :
         /\ path = s.path
         /\ file = [header |-> [dotenvs |-> s.dotenvs], commands |-> m]
         /\ cfg = [select |-> s.select, reject |-> s.reject,
                   skip_env |-> s.skip_env, argv0 |-> "/usr/bin/upbuild"]
         /\ provided_args = s.provided_args
    /\ pc = "apply_header"
    /\ idx = 0
    /\ last_dir = None
    /\ calls = << >>
    /\ result = None

Next == ApplyHeader \/ EnterMain \/ SkipCmd \/ StartCmd \/ FinishCmd \/ ReturnOk

Spec == Init /\ [][Next]_vars

----------------------------------------------------------------------------
(* Single evaluations of the pure functions of the task model and of the   *)
(* argument resolver, over bounded inputs.                                 *)

ExecIdle ==
    /\ path = ""
    /\ file = [header |-> [dotenvs |-> << >>], commands |-> << >>]
    /\ cfg = [select |-> {}, reject |-> {}, skip_env |-> FALSE, argv0 |-> "upbuild"]
    /\ provided_args = << >>
    /\ pc = "idle"
    /\ idx = 0
    /\ last_dir = None
    /\ calls = << >>
    /\ result = None

TagUniverse == {"host", "target", "release"}

InitSel ==
    /\ ExecIdle
    /\ ParseIdle
    /\ fn = "enabled_with_reject"
    /\ output = None
    /\ \E d \in BOOLEAN, m \in BOOLEAN, t \in SUBSET TagUniverse,
          sel \in SUBSET TagUniverse, rej \in SUBSET TagUniverse :
         input = [cmd |-> [make EXCEPT !.disabled = d, !.manual = m, !.tags = t],
                  select |-> sel, reject |-> rej]

\* cmd.enabled_with_reject(&select, &reject)
CallEnabled ==
    /\ fn = "enabled_with_reject"
    /\ output = None
    /\ output' = Some(enabled_with_reject(input.cmd, input.select, input.reject))
    /\ UNCHANGED <<fn, input>>
    /\ UNCHANGED exec_vars
    /\ UNCHANGED parse_vars

SpecSel == InitSel /\ [][CallEnabled]_vars

MaxCode == 2

MaxPairs == 2

Codes == (0 - MaxCode)..MaxCode

RetMaps == UNION { [D -> Codes] : D \in {K \in SUBSET Codes : Cardinality(K) <= MaxPairs} }

InitMap ==
    /\ ExecIdle
    /\ ParseIdle
    /\ fn = "map_code"
    /\ output = None
    /\ \E rm \in RetMaps, c \in Codes :
         input = [cmd |-> [make EXCEPT !.retmap = rm], c |-> c]

\* cmd.map_code(c)
CallMapCode ==
    /\ fn = "map_code"
    /\ output = None
    /\ output' = Some(map_code(input.cmd, input.c))
    /\ UNCHANGED <<fn, input>>
    /\ UNCHANGED exec_vars
    /\ UNCHANGED parse_vars

SpecMap == InitMap /\ [][CallMapCode]_vars

----------------------------------------------------------------------------
(* Claims *)

called == is_some(output)

returned == unwrap(output)

intersects(a, b) == \E t \in a : t \in b

\* the truth table of section 4.2
TruthTable(disabled, manual, tags, select, reject) ==
    CASE disabled -> FALSE
      [] ~disabled /\ intersects(reject, tags) -> FALSE
      [] ~disabled /\ ~intersects(reject, tags) /\ manual
           /\ (select = {} \/ ~intersects(select, tags)) -> FALSE
      [] ~disabled /\ ~intersects(reject, tags)
           /\ ~(manual /\ (select = {} \/ ~intersects(select, tags)))
           /\ select # {} -> intersects(select, tags)
      [] OTHER -> TRUE

\* C1: enabled_with_reject(select, reject) equals the section 4.2 truth table
\* for every disabled, manual, tags, select and reject over the tag universe.
C1_EnabledMatchesTruthTable ==
    called =>
        returned = TruthTable(input.cmd.disabled, input.cmd.manual, input.cmd.tags,
                              input.select, input.reject)

\* a manual task, selected by one of its tags, with a reject set that misses it
C1_Witness ==
    /\ called
    /\ input.cmd.manual
    /\ input.reject # {}
    /\ input.select # {}
    /\ returned = TRUE

\* C3: map_code(c) is the mapped value for every key of the retmap and c
\* itself for every other code, zero and negative codes included.
C3_MapCodeIdentityOffMap ==
    called =>
        /\ input.c \in DOMAIN input.cmd.retmap => returned = input.cmd.retmap[input.c]
        /\ input.c \notin DOMAIN input.cmd.retmap => returned = input.c

\* a negative code that is a key, mapped to zero, next to a key that is not it
C3_Witness ==
    /\ called
    /\ input.c < 0
    /\ input.c \in DOMAIN input.cmd.retmap
    /\ Cardinality(DOMAIN input.cmd.retmap) = 2
    /\ returned = 0

----------------------------------------------------------------------------
(* The argument resolver on one task: Exec::run lines 136-142.             *)

MaxArgs == 4

Tokens == {"make", "upbuild", "--", "-j8", "ignored"}

ArgLists == UNION { [1..n -> Tokens] : n \in 1..MaxArgs }

\* the task parse_lines builds from argument lines: Cmd::new, then append_arg
RECURSIVE append_args(_, _)
append_args(cmd, ls) ==
    IF ls = << >> THEN cmd
    ELSE append_args(append_arg(cmd, Head(ls)), Tail(ls))

cmd_of(ls) == append_args(CmdNew(Head(ls)), Tail(ls))

InitArgs ==
    /\ ExecIdle
    /\ ParseIdle
    /\ fn = "with_args"
    /\ output = None
    /\ \E a \in ArgLists, p \in {<< >>, << "all" >>, << "all", "--", "tests" >>},
          a0 \in {"upbuild", "/usr/bin/upbuild", "--"} :
         input = [cmd |-> cmd_of(a), provided |-> p, argv0 |-> a0]

\* Self::with_args(cmd.args(), provided_args, if cmd.recurse() {Some(argv0)})
CallWithArgs ==
    /\ fn = "with_args"
    /\ output = None
    /\ output' = Some(resolve_args(input.cmd, input.provided, input.argv0))
    /\ UNCHANGED <<fn, input>>
    /\ UNCHANGED exec_vars
    /\ UNCHANGED parse_vars

SpecArgs == InitArgs /\ [][CallWithArgs]_vars

\* the position of the first "--" of s, Len(s) + 1 when it has none
first_separator(s) ==
    IF \E i \in 1..Len(s) : s[i] = "--"
    THEN CHOOSE i \in 1..Len(s) : s[i] = "--" /\ \A j \in 1..(i - 1) : s[j] # "--"
    ELSE Len(s) + 1

before_separator(s) == SubSeq(s, 1, first_separator(s) - 1)

without_first_separator(s) ==
    before_separator(s) \o SubSeq(s, first_separator(s) + 1, Len(s))

\* the literal arguments with arguments[0] replaced for a recurse task
substituted(cmd, argv0) ==
    IF cmd.recurse THEN << argv0 >> \o Tail(cmd.args) ELSE cmd.args

\* C6 as stated: without passthrough arguments the resolved argv is the
\* literal arguments with only the first `--` removed.
C6_Original ==
    (called /\ input.provided = << >>) =>
        returned = without_first_separator(input.cmd.args)

\* C6 (amended): without passthrough arguments the resolved argv is the
\* literal arguments, arguments[0] replaced by Config.argv0 for a recurse
\* task, with only the first `--` removed; later tokens and later `--` stay.
C6_FirstSeparatorDropped ==
    (called /\ input.provided = << >>) =>
        returned = without_first_separator(substituted(input.cmd, input.argv0))

\* two `--` tokens with a token between them, no passthrough
C6_Witness ==
    /\ called
    /\ input.provided = << >>
    /\ input.cmd.args = << "make", "--", "ignored", "--" >>
    /\ returned = << "make", "ignored", "--" >>

Example == << "make", "-j8", "--", "ignored" >>

\* C7 as stated: [make,-j8,--,ignored] resolves to [make,-j8] without
\* passthrough arguments and to [make,-j8,all] with passthrough [all].
C7_Original ==
    (called /\ input.cmd.args = Example) =>
        /\ input.provided = << >> => returned = << "make", "-j8" >>
        /\ input.provided = << "all" >> => returned = << "make", "-j8", "all" >>

\* C7 (amended): [make,-j8,--,ignored] resolves to [make,-j8,ignored] without
\* passthrough arguments and to [make,-j8,all] with passthrough [all].
C7_Example ==
    (called /\ input.cmd.args = Example) =>
        /\ input.provided = << >> => returned = << "make", "-j8", "ignored" >>
        /\ input.provided = << "all" >> => returned = << "make", "-j8", "all" >>

C7_Witness ==
    /\ called
    /\ input.cmd.args = Example
    /\ input.provided = << >>
    /\ Len(returned) = 3

\* how the arguments of a task resolve when nothing is substituted
resolved_plain(args, provided) ==
    IF provided = << >> THEN without_first_separator(args)
    ELSE before_separator(args) \o provided

\* C8 as stated: the first element is Config.argv0 for a recurse task and
\* the literal arguments[0] for any other task; the rest is never replaced.
C8_Original ==
    called =>
        /\ returned # << >>
        /\ returned[1] = (IF input.cmd.recurse THEN input.argv0 ELSE input.cmd.args[1])
        /\ Tail(returned) = Tail(resolved_plain(input.cmd.args, input.provided))

\* the token the resolved argv starts from: Config.argv0 for a recurse task,
\* arguments[0] for any other
first_token ==
    IF input.cmd.recurse THEN input.argv0 ELSE input.cmd.args[1]

\* C8 (amended): when the token the argv starts from (Config.argv0 for a
\* recurse task, the literal arguments[0] for any other) is not `--`, it is
\* the first element of the resolved argv, and the elements after the first
\* are those the task's arguments resolve to unsubstituted.
C8_Argv0OnlyForRecurse ==
    (called /\ first_token # "--") =>
        /\ returned # << >>
        /\ returned[1] = first_token
        /\ Tail(returned) = Tail(resolved_plain(input.cmd.args, input.provided))

\* a recurse task with a later `upbuild` argument, run under another argv0
C8_Witness ==
    /\ called
    /\ input.cmd.recurse
    /\ input.argv0 # "upbuild"
    /\ input.cmd.args = << "upbuild", "upbuild", "--", "make" >>
    /\ returned = << "/usr/bin/upbuild", "upbuild", "make" >>

----------------------------------------------------------------------------
(* Claims about Exec::run, stated over the record of Runner calls.         *)

task_of(i) == file.commands[i]

positions(op) == {k \in 1..Len(calls) : calls[k].op = op}

\* the code the retmap of cmd assigns to a raw code
mapped(cmd, raw) == IF raw \in DOMAIN cmd.retmap THEN cmd.retmap[raw] ELSE raw

exit_code(c) == Some(Err("ExitWithExitCode", c))

\* C2: the abort decision uses the mapped code: a non-zero mapped code c ends
\* the run with ExitWithExitCode(c) and no later Runner.run; a non-zero raw
\* code mapped to 0 does not end the run (raw 1 under 1=>0 continues, raw 2
\* under the same map aborts with 2).
C2_AbortOnMappedCode ==
    \A k \in positions("run_returned") :
        calls[k].res.kind = "Ok" =>
            LET cmd == task_of(calls[k].task)
                raw == calls[k].res.code
                c == mapped(cmd, raw)
            IN /\ c # 0 =>
                    /\ result = exit_code(c)
                    /\ pc = "done"
                    /\ \A j \in positions("run") : j < k
               /\ (raw # 0 /\ c = 0) =>
                    /\ is_some(result) /\ unwrap(result).kind = "ExitWithExitCode"
                         => \E j \in positions("run_returned") : j > k
                    /\ \/ idx > calls[k].task
                       \/ \E j \in positions("display_output") :
                            calls[j].task = calls[k].task /\ calls[j].res = "Err"
               /\ (cmd.retmap = (1 :> 0) /\ raw = 2) => result = exit_code(2)

\* raw 1 under 1=>0 returned by the first task, and the second task was run
C2_Witness ==
    \E k \in positions("run_returned"), j \in positions("run") :
        /\ calls[k].task = 1
        /\ calls[k].res = Ok(1)
        /\ task_of(1).retmap = (1 :> 0)
        /\ calls[j].task = 2

enabled(i) ==
    TruthTable(task_of(i).disabled, task_of(i).manual, task_of(i).tags,
               cfg.select, cfg.reject)

\* the tasks the loop has taken up so far
taken_up ==
    IF pc \in {"apply_header", "show_entering"} THEN 0
    ELSE IF pc = "loop" THEN idx - 1
    ELSE IF idx > Len(file.commands) THEN Len(file.commands)
    ELSE idx

RECURSIVE enabled_upto(_)
enabled_upto(n) ==
    IF n = 0 THEN << >>
    ELSE IF enabled(n) THEN Append(enabled_upto(n - 1), n) ELSE enabled_upto(n - 1)

RECURSIVE sorted_seq(_)
sorted_seq(S) ==
    IF S = {} THEN << >>
    ELSE LET m == CHOOSE x \in S : \A y \in S : x <= y
         IN << m >> \o sorted_seq(S \ {m})

\* the tasks Runner.run was invoked for, in the order of the invocations
run_tasks == [n \in 1..Cardinality(positions("run")) |->
                calls[sorted_seq(positions("run"))[n]].task]

\* something made the run stop early
aborted ==
    \/ \E k \in positions("run_returned") :
         \/ calls[k].res.kind # "Ok"
         \/ mapped(task_of(calls[k].task), calls[k].res.code) # 0
    \/ \E k \in positions("display_output") : calls[k].res = "Err"
    \/ \E k \in positions("load_global_dotenv_") : calls[k].res = "Err"

\* C4: Runner.run is invoked exactly once for each enabled task, in manifest
\* order, each invocation after the previous one has returned, up to the
\* first abort; a run in which nothing aborts returns Ok.
C4_RunOncePerEnabledTaskInOrder ==
    /\ run_tasks = enabled_upto(taken_up)
    /\ \A k \in positions("run"), j \in positions("run") :
         k < j => \E r \in positions("run_returned") :
                     k < r /\ r < j /\ calls[r].task = calls[k].task
    /\ aborted => pc = "done" /\ is_some(result) /\ unwrap(result).kind # "Ok"
    /\ (pc = "done" /\ ~aborted) =>
         /\ result = Some(Ok(0))
         /\ run_tasks = enabled_upto(Len(file.commands))

\* a finished run of two tasks that ran only the second
C4_Witness ==
    /\ pc = "done"
    /\ result = Some(Ok(0))
    /\ Len(file.commands) = 2
    /\ run_tasks = << 2 >>

\* C5 as stated: with passthrough arguments every executed task is run with
\* its literal arguments before the first `--`, then the passthrough ones.
C5_Original ==
    \A k \in positions("run") :
        provided_args # << >> =>
            calls[k].cmd =
                before_separator(task_of(calls[k].task).args) \o provided_args

\* C5 (amended): with passthrough arguments every executed task is run with
\* its literal arguments, arguments[0] replaced by Config.argv0 for a recurse
\* task, before the first `--`, followed by the passthrough arguments.
C5_PassthroughReplacesTail ==
    \A k \in positions("run") :
        provided_args # << >> =>
            calls[k].cmd =
                before_separator(substituted(task_of(calls[k].task), cfg.argv0))
                    \o provided_args

\* both tasks of a manifest were run with passthrough arguments, the first
\* one having arguments after a `--`
C5_Witness ==
    /\ provided_args # << >>
    /\ \E k \in positions("run"), j \in positions("run") :
         /\ calls[k].task = 1 /\ calls[j].task = 2
         /\ task_of(1).args = << "make", "-j8", "--", "test" >>
         /\ calls[k].cmd = << "make", "-j8", "all", "tests" >>

\* dir is base followed by the components of rel
joined_onto(dir, base, rel) ==
    /\ is_some(dir)
    /\ components(unwrap(dir)) = components(base) \o components(rel)

\* the run directory the claim assigns to cmd under the base directory
is_run_dir_of(dir, cmd, base) ==
    IF is_some(cmd.cd)
    THEN LET d == unwrap(cmd.cd)
         IN IF is_absolute(d) \/ is_none(base) THEN dir = Some(d)
            ELSE joined_onto(dir, unwrap(base), d)
    ELSE IF cmd.recurse
    THEN IF is_none(base) THEN dir = Some("..")
         ELSE joined_onto(dir, unwrap(base), "..")
    ELSE dir = base

\* C9: the run directory passed to Runner.run is the @cd value joined onto
\* the base directory when @cd is set (an absolute value replaces the base,
\* without a base the value is used as is); otherwise `..` joined onto the
\* base for a recurse task; otherwise the base directory itself.
C9_RunDirectory ==
    \A k \in positions("run") :
        is_run_dir_of(calls[k].cd, task_of(calls[k].task), main_working_dir)

\* a relative @cd and a recurse default, both under a base directory
C9_Witness ==
    /\ is_some(main_working_dir)
    /\ \E k \in positions("run"), j \in positions("run") :
         /\ task_of(calls[k].task).cd = Some("sub")
         /\ calls[k].cd = Some("./../sub")
         /\ task_of(calls[j].task).recurse
         /\ calls[j].cd = Some("./../..")

notices_of(i) == {k \in positions("on_enter_dir") : calls[k].task = i}

\* the directory of the manifest is not the current directory
base_differs_from_cwd ==
    LET dir == parent(path)
    IN is_some(dir) /\ resolve(Cwd, components(unwrap(dir))) # Cwd

\* the run directory of the task executed before position k, the base
\* directory when there is none
previous_dir(k) ==
    LET before == {j \in positions("run") : j < k}
    IN IF before = {} THEN main_working_dir
       ELSE calls[CHOOSE j \in before : \A i \in before : i <= j].cd

\* C10: entering-directory notices are emitted exactly at directory
\* transitions: one before the loop iff the base directory differs from the
\* current directory, and for each executed task one iff its run directory
\* differs from that of the previously executed task (from the base for the
\* first); none on a repeat, one on a return to the base directory.
C10_NoticesAtTransitions ==
    /\ idx >= 1 =>
         Cardinality(notices_of(0)) = (IF base_differs_from_cwd THEN 1 ELSE 0)
    /\ idx = 0 => notices_of(0) = {}
    /\ \A k \in positions("run") :
         Cardinality(notices_of(calls[k].task)) =
             (IF opt_path_eq(calls[k].cd, previous_dir(k)) THEN 0 ELSE 1)
    /\ \A n \in positions("on_enter_dir") :
         calls[n].task > 0 => \E k \in positions("run") :
                                  k > n /\ calls[k].task = calls[n].task

\* a manifest in the current directory: the first task runs elsewhere, the
\* second returns to the base directory, and both transitions are announced
C10_Witness ==
    /\ is_none(main_working_dir)
    /\ \E k \in positions("run"), j \in positions("run") :
         /\ calls[k].task = 1 /\ calls[k].cd = Some("/abs")
         /\ calls[j].task = 2 /\ calls[j].cd = None
    /\ \E n \in notices_of(1) : calls[n].dir = "/abs"
    /\ \E n \in notices_of(2) : calls[n].dir = "/w/proj"

\* Runner.run returned a code for task i that its retmap maps to 0
succeeded(i) ==
    \E k \in positions("run_returned") :
        /\ calls[k].task = i
        /\ calls[k].res.kind = "Ok"
        /\ mapped(task_of(i), calls[k].res.code) = 0

streamed(i) == {k \in positions("display_output") : calls[k].task = i}

\* C11: the @outfile of a task is streamed, once and right after its command
\* returned, iff the task was executed and its mapped return code is 0 (never
\* for a skipped task or one that aborted the run); a failure of the
\* streaming call makes Exec::run return that error with no later task run.
C11_OutfileStreamedOnSuccess ==
    /\ \A i \in 1..Len(file.commands) :
         /\ Cardinality(streamed(i)) =
                (IF is_some(task_of(i).outfile) /\ succeeded(i) THEN 1 ELSE 0)
         /\ \A k \in streamed(i) :
              /\ calls[k].file = unwrap(task_of(i).outfile)
              /\ k > 1 /\ calls[k - 1].op = "run_returned" /\ calls[k - 1].task = i
    /\ \A k \in positions("display_output") :
         calls[k].res = "Err" =>
             /\ pc = "done"
             /\ result = Some(Err("UnableToReadOutfile", 0))
             /\ k = Len(calls)

\* the first task returned raw 1 under 1=>0 and its outfile was streamed; the
\* streaming of the second task's outfile failed and ended the run
C11_Witness ==
    /\ pc = "done"
    /\ task_of(1).retmap = (1 :> 0)
    /\ \E r \in positions("run_returned") : calls[r].task = 1 /\ calls[r].res = Ok(1)
    /\ \E k \in streamed(1) : calls[k].res = "Ok" /\ calls[k].file = "log.txt"
    /\ \E k \in streamed(2) : calls[k].res = "Err"

\* C12: when Runner.run returns an error (FailedToExec, ExitWithSignal) for a
\* task, Exec::run returns that same error: the retmap is not applied to it,
\* the outfile of the task is not streamed and no later task is run.
C12_RunErrorIsReturned ==
    \A k \in positions("run_returned") :
        calls[k].res.kind # "Ok" =>
            /\ pc = "done"
            /\ result = Some(calls[k].res)
            /\ streamed(calls[k].task) = {}
            /\ k = Len(calls)

\* the first of two enabled tasks, which has a retmap and an outfile, was
\* ended by a signal
C12_Witness ==
    /\ Len(file.commands) = 2
    /\ enabled(2)
    /\ task_of(1).retmap = (1 :> 0)
    /\ is_some(task_of(1).outfile)
    /\ result = Some(Err("ExitWithSignal", 6))
    /\ Cardinality(positions("run")) = 1

\* a creation request of the run failed
mkdir_failed == \E k \in positions("check_mkdir") : calls[k].res = "Err"

\* C13: a failed creation of a task's @mkdir target does not abort the run:
\* the command of the same task is still run in its run directory, the run
\* never returns the creation error, and the tasks run are those that are
\* run when every creation succeeds.
C13_MkdirFailureNotFatal ==
    /\ \A k \in positions("check_mkdir") :
         \E j \in positions("run") :
             /\ j > k
             /\ calls[j].task = calls[k].task
             /\ is_run_dir_of(calls[j].cd, task_of(calls[j].task), main_working_dir)
             /\ \A n \in (k + 1)..(j - 1) : calls[n].op = "on_enter_dir"
    /\ mkdir_failed =>
         /\ run_tasks = enabled_upto(taken_up)
         /\ is_some(result) /\ unwrap(result).kind # "Ok" => aborted
         /\ (pc = "done" /\ ~aborted) =>
              /\ result = Some(Ok(0))
              /\ run_tasks = enabled_upto(Len(file.commands))

\* the creation for the first task failed, both tasks were run and the run
\* returned Ok
C13_Witness ==
    /\ pc = "done"
    /\ result = Some(Ok(0))
    /\ \E k \in positions("check_mkdir") : calls[k].task = 1 /\ calls[k].res = "Err"
    /\ run_tasks = << 1, 2 >>

\* the components of the last path resolved against those before it: an
\* absolute path replaces what precedes it
RECURSIVE chained(_)
chained(ps) ==
    IF ps = << >> THEN << >>
    ELSE LET p == ps[Len(ps)]
         IN IF is_absolute(p) THEN components(p)
            ELSE chained(SubSeq(ps, 1, Len(ps) - 1)) \o components(p)

creations_of(i) == {k \in positions("check_mkdir") : calls[k].task = i}

\* C14 as stated: the path requested for creation is the @mkdir target
\* resolved against the base directory joined with the task's @cd.
C14_Original ==
    \A k \in positions("check_mkdir") :
        LET cmd == task_of(calls[k].task)
        IN components(calls[k].d) = chained(main_working_dir \o cmd.cd \o cmd.mkdir)

\* C14 (amended): every executed task that sets @mkdir requests one creation,
\* before its command is run, and the path requested is the @mkdir target
\* resolved against the base directory alone; the task's @cd plays no part.
C14_MkdirAgainstBase ==
    /\ \A k \in positions("check_mkdir") :
         LET cmd == task_of(calls[k].task)
         IN components(calls[k].d) = chained(main_working_dir \o cmd.mkdir)
    /\ \A j \in positions("run") :
         Cardinality({k \in creations_of(calls[j].task) : k < j}) =
             (IF is_some(task_of(calls[j].task).mkdir) THEN 1 ELSE 0)

\* under a base directory, a task with @cd=sub and @mkdir=build was run
C14_Witness ==
    \E k \in positions("check_mkdir"), j \in positions("run") :
        /\ calls[j].task = calls[k].task
        /\ task_of(calls[k].task).cd = Some("sub")
        /\ task_of(calls[k].task).mkdir = Some("build")
        /\ main_working_dir = Some("./..")
        /\ calls[k].d = "./../build"
        /\ calls[j].cd = Some("./../sub")

\* C15: a task that is skipped (disabled, or not selected by its tags) has no
\* side effect: no Runner call of any kind is made for it and the directory
\* cursor stays that of the last executed task, so the notice of a task that
\* follows it is decided against the task executed before it.
C15_SkippedTaskNoEffects ==
    /\ \A k \in 1..Len(calls) : calls[k].task > 0 => enabled(calls[k].task)
    /\ idx >= 1 => opt_path_eq(last_dir, previous_dir(Len(calls) + 1))
    /\ \A k \in positions("run") :
         (calls[k].task > 1 /\ ~enabled(calls[k].task - 1)) =>
             Cardinality(notices_of(calls[k].task)) =
                 (IF opt_path_eq(calls[k].cd, previous_dir(k)) THEN 0 ELSE 1)

\* a disabled first task with @cd, @mkdir and @outfile was passed over and
\* the second task ran where the manifest is, without any notice
C15_Witness ==
    /\ pc = "done"
    /\ result = Some(Ok(0))
    /\ task_of(1).disabled
    /\ is_some(task_of(1).cd) /\ is_some(task_of(1).mkdir) /\ is_some(task_of(1).outfile)
    /\ run_tasks = << 2 >>
    /\ positions("on_enter_dir") = {}
    /\ positions("check_mkdir") = {}
    /\ positions("display_output") = {}

----------------------------------------------------------------------------
(* src/file.rs: the manifest parser.  parse_line classifies one line,      *)
(* ClassicFile::parse_lines folds the lines into the header and the tasks. *)

\* str::starts_with
starts_with(s, p) == Len(s) >= Len(p) /\ SubSeq(s, 1, Len(p)) = p

\* the first position at or after i where pat occurs in s, 0 when there is none
RECURSIVE find_from(_, _, _)
find_from(s, pat, i) ==
    IF i + Len(pat) - 1 > Len(s) THEN 0
    ELSE IF SubSeq(s, i, i + Len(pat) - 1) = pat THEN i
    ELSE find_from(s, pat, i + 1)

\* str::split_once
split_once(s, pat) ==
    LET i == find_from(s, pat, 1)
    IN IF i = 0 THEN None
       ELSE Some(<< SubSeq(s, 1, i - 1), SubSeq(s, i + Len(pat), Len(s)) >>)

Digits == << "0", "1", "2", "3", "4", "5", "6", "7", "8", "9" >>

is_digit(c) == \E d \in 1..10 : Digits[d] = c

digit(c) == (CHOOSE d \in 1..10 : Digits[d] = c) - 1

RECURSIVE digits_value(_, _)
digits_value(s, acc) ==
    IF Len(s) = 0 THEN Some(acc)
    ELSE IF is_digit(char_at(s, 1))
         THEN digits_value(SubSeq(s, 2, Len(s)), acc * 10 + digit(char_at(s, 1)))
         ELSE None

\* str::parse::<RetCode>: an optional sign and at least one decimal digit
parse_RetCode(s) ==
    LET signed == Len(s) > 0 /\ char_at(s, 1) \in {"+", "-"}
        body == IF signed THEN SubSeq(s, 2, Len(s)) ELSE s
        v == IF Len(body) = 0 THEN None ELSE digits_value(body, 0)
    IN IF is_some(v) /\ signed /\ char_at(s, 1) = "-" THEN Some(0 - unwrap(v))
       ELSE v

\* an Err(Error::<kind>) of the parser
ParseErr(kind) == [kind |-> kind]

\* the for loop of parse_retmap over the entries es, h being the map so far
RECURSIVE retmap_entries(_, _)
retmap_entries(es, h) ==
    IF es = << >> THEN [kind |-> "Ok", map |-> h]
    ELSE LET parts == split_once(Head(es), "=>")
         IN IF is_none(parts) THEN ParseErr("InvalidRetMapDefinition")
            ELSE LET a == parse_RetCode(unwrap(parts)[1])
                     b == parse_RetCode(unwrap(parts)[2])
                 IN IF is_none(a) \/ is_none(b)
                    THEN ParseErr("InvalidRetMapDefinition")
                    ELSE retmap_entries(Tail(es), (unwrap(a) :> unwrap(b)) @@ h)

\* a mutant of parse_retmap: the empty definition is the empty map
parse_retmap_empty_ok(def) ==
    IF def = "" THEN [kind |-> "Ok", map |-> EmptyMap]
    ELSE retmap_entries(split(def, ","), EmptyMap)

\* parse_retmap
parse_retmap(def) == retmap_entries(split(def, ","), EmptyMap)

\* enum Line (and the Flags / HeaderFlags it carries)
Flag(name, v) == [t |-> "Flag", flag |-> name, v |-> v]

Arg(l) == [t |-> "Arg", v |-> l]

HeaderFlag(name, v) == [t |-> "HeaderFlag", flag |-> name, v |-> v]

HeaderSeparator == [t |-> "HeaderSeparator"]

Comment == [t |-> "Comment"]

End == [t |-> "End"]

LineOk(line) == [kind |-> "Ok", line |-> line]

\* a mutant of split_flag: the value after the name is dropped
split_flag_name_only(l) ==
    LET rest == SubSeq(l, 2, Len(l))
        parts == split_once(rest, "=")
    IN IF is_some(parts) THEN << unwrap(parts)[1], "" >> ELSE << rest, "" >>

\* split_flag: the name and the value of a line that starts with `@`
split_flag(l) ==
    LET rest == SubSeq(l, 2, Len(l))
        parts == split_once(rest, "=")
    IN IF is_some(parts) THEN unwrap(parts) ELSE << rest, "" >>

\* a mutant of tag_set: the empty value is split like any other
tag_set_split_empty(tags) ==
    LET ps == split(tags, ",") IN {ps[i] : i \in 1..Len(ps)}

\* the set Flags::Tags carries
tag_set(tags) ==
    IF tags = "" THEN {}
    ELSE LET ps == split(tags, ",") IN {ps[i] : i \in 1..Len(ps)}

\* parse_line
parse_line(l) ==
    IF l = "@disable" THEN LineOk(Flag("Disable", ""))
    ELSE IF l = "@manual" THEN LineOk(Flag("Manual", ""))
    ELSE IF l = "&&" THEN LineOk(End)
    ELSE IF starts_with(l, "@---") THEN LineOk(HeaderSeparator)
    ELSE IF starts_with(l, "#") THEN LineOk(Comment)
    ELSE IF starts_with(l, "@")
    THEN LET name == split_flag(l)[1]
             value == split_flag(l)[2]
         IN IF name = "tags" THEN LineOk(Flag("Tags", tag_set(value)))
            ELSE IF name = "retmap"
            THEN LET m == parse_retmap(value)
                 IN IF m.kind = "Ok" THEN LineOk(Flag("RetMap", m.map)) ELSE m
            ELSE IF name = "outfile" THEN LineOk(Flag("Outfile", value))
            ELSE IF name = "cd" THEN LineOk(Flag("Cd", value))
            ELSE IF name = "mkdir" THEN LineOk(Flag("Mkdir", value))
            ELSE IF name = "env" THEN LineOk(HeaderFlag("Env", value))
            ELSE IF name = "disable" /\ value = "" THEN LineOk(Flag("Disable", ""))
            ELSE IF name = "manual" /\ value = "" THEN LineOk(Flag("Manual", ""))
            ELSE ParseErr("InvalidTag")
    ELSE LineOk(Arg(l))

\* Cmd::append_dotenv
append_dotenv(cmd, arg) == [cmd EXCEPT !.dotenvs = Append(@, arg)]

\* Header::append_dotenv
header_append_dotenv(h, arg) == [h EXCEPT !.dotenvs = Append(@, arg)]

\* the locals of parse_lines; err is the error a `?` returns, if any
locals ==
    [entry |-> entry, entries |-> entries, header_state |-> header_state,
     header |-> header, err |-> None]

fail(st, kind) == [st EXCEPT !.err = Some(kind)]

\* a mutant of in_body: the header state is left as it was
in_body_kept(st) == st

in_body(st) == [st EXCEPT !.header_state = "InBody"]

\* a mutant of on_separator: the separator is accepted in any state
on_separator_anywhere(st) == in_body(st)

\* parse_lines, the arm Line::HeaderSeparator
on_separator(st) ==
    IF st.header_state \in {"InHeader", "Unknown"} THEN in_body(st)
    ELSE fail(st, "InvalidHeaderField")

\* a mutant of on_arg: an argument line always opens a task of its own,
\* closing the one that is open
on_arg_reopens(st, f) ==
    IF is_some(st.entry)
    THEN [in_body(st) EXCEPT !.entries = Append(@, unwrap(st.entry)),
                             !.entry = Some(CmdNew(f))]
    ELSE [in_body(st) EXCEPT !.entry = Some(CmdNew(f))]

\* parse_lines, the arm Line::Arg
on_arg(st, f) ==
    IF is_some(st.entry)
    THEN [in_body(st) EXCEPT !.entry = Some(append_arg(unwrap(@), f))]
    ELSE [in_body(st) EXCEPT !.entry = Some(CmdNew(f))]

\* a mutant of apply_flag: tags and return-code maps are merged into the old
apply_flag_merging(cmd, f) ==
    CASE f.flag = "Disable" -> [cmd EXCEPT !.disabled = TRUE]
      [] f.flag = "Manual"  -> [cmd EXCEPT !.manual = TRUE]
      [] f.flag = "Tags"    -> [cmd EXCEPT !.tags = @ \cup f.v]
      [] f.flag = "Outfile" -> [cmd EXCEPT !.outfile = Some(f.v)]
      [] f.flag = "RetMap"  -> [cmd EXCEPT !.retmap = f.v @@ @]
      [] f.flag = "Cd"      -> [cmd EXCEPT !.cd = Some(f.v)]
      [] f.flag = "Mkdir"   -> [cmd EXCEPT !.mkdir = Some(f.v)]

\* the inner match of the arm Line::Flag
apply_flag(cmd, f) ==
    CASE f.flag = "Disable" -> [cmd EXCEPT !.disabled = TRUE]
      [] f.flag = "Manual"  -> [cmd EXCEPT !.manual = TRUE]
      [] f.flag = "Tags"    -> [cmd EXCEPT !.tags = f.v]
      [] f.flag = "Outfile" -> [cmd EXCEPT !.outfile = Some(f.v)]
      [] f.flag = "RetMap"  -> [cmd EXCEPT !.retmap = f.v]
      [] f.flag = "Cd"      -> [cmd EXCEPT !.cd = Some(f.v)]
      [] f.flag = "Mkdir"   -> [cmd EXCEPT !.mkdir = Some(f.v)]

\* a mutant of on_flag: a flag met while no task is open is dropped
on_flag_dropped(st, f) ==
    IF is_some(st.entry)
    THEN [in_body(st) EXCEPT !.entry = Some(apply_flag(unwrap(@), f))]
    ELSE in_body(st)

\* parse_lines, the arm Line::Flag
on_flag(st, f) ==
    IF is_some(st.entry)
    THEN [in_body(st) EXCEPT !.entry = Some(apply_flag(unwrap(@), f))]
    ELSE fail(in_body(st), "FlagBeforeCommand")

\* a mutant of on_end: `&&` with no open task is passed over
on_end_lenient(st) ==
    IF is_some(st.entry)
    THEN [in_body(st) EXCEPT !.entries = Append(@, unwrap(st.entry)), !.entry = None]
    ELSE in_body(st)

\* parse_lines, the arm Line::End
on_end(st) ==
    IF is_some(st.entry)
    THEN [in_body(st) EXCEPT !.entries = Append(@, unwrap(st.entry)), !.entry = None]
    ELSE fail(in_body(st), "EmptyEntry")

\* a mutant of on_header_flag: @env is header-scope wherever it occurs
on_header_flag_global(st, hf) ==
    [st EXCEPT !.header = header_append_dotenv(@, hf.v)]

\* parse_lines, the arm Line::HeaderFlag (HeaderFlags::Env is the only one)
on_header_flag(st, hf) ==
    CASE st.header_state = "InHeader" ->
             [st EXCEPT !.header = header_append_dotenv(@, hf.v)]
      [] st.header_state = "InBody" ->
             IF is_some(st.entry)
             THEN [st EXCEPT !.entry = Some(append_dotenv(unwrap(@), hf.v))]
             ELSE fail(st, "FlagBeforeCommand")
      [] st.header_state = "Unknown" ->
             [st EXCEPT !.header_state = "InHeader",
                        !.header = header_append_dotenv(@, hf.v)]

\* a mutant of at_end: the parse succeeds as soon as a task was closed
at_end_lenient(st) ==
    IF is_some(st.entry)
    THEN [st EXCEPT !.entries = Append(@, unwrap(st.entry)), !.entry = None]
    ELSE IF st.entries # << >> THEN st
    ELSE fail(st, "EmptyEntry")

\* parse_lines after the for loop: the match on entry
at_end(st) ==
    IF is_some(st.entry)
    THEN [st EXCEPT !.entries = Append(@, unwrap(st.entry)), !.entry = None]
    ELSE fail(st, "EmptyEntry")

\* a mutant of on_line: an empty line is passed over
on_line_skips_empty(st, l) ==
    LET r == parse_line(l)
    IN IF l = "" THEN st
       ELSE IF r.kind # "Ok" THEN fail(st, r.kind)
       ELSE CASE r.line.t = "HeaderSeparator" -> on_separator(st)
              [] r.line.t = "Arg"             -> on_arg(st, r.line.v)
              [] r.line.t = "Flag"            -> on_flag(st, r.line)
              [] r.line.t = "Comment"         -> st
              [] r.line.t = "End"             -> on_end(st)
              [] r.line.t = "HeaderFlag"      -> on_header_flag(st, r.line)

\* the body of the for loop for one line
on_line(st, l) ==
    LET r == parse_line(l)
    IN IF r.kind # "Ok" THEN fail(st, r.kind)
       ELSE CASE r.line.t = "HeaderSeparator" -> on_separator(st)
              [] r.line.t = "Arg"             -> on_arg(st, r.line.v)
              [] r.line.t = "Flag"            -> on_flag(st, r.line)
              [] r.line.t = "Comment"         -> st
              [] r.line.t = "End"             -> on_end(st)
              [] r.line.t = "HeaderFlag"      -> on_header_flag(st, r.line)

\* one iteration of `for line in lines`
ParseLine ==
    /\ parsed = None
    /\ lineno < Len(lines)
    /\ LET st == on_line(locals, lines[lineno + 1])
       IN /\ entry' = st.entry
          /\ entries' = st.entries
          /\ header_state' = st.header_state
          /\ header' = st.header
          /\ parsed' = IF is_some(st.err)
                       THEN Some([kind |-> unwrap(st.err), at |-> lineno + 1])
                       ELSE None
    /\ lineno' = lineno + 1
    /\ UNCHANGED lines
    /\ UNCHANGED pure_vars
    /\ UNCHANGED exec_vars

\* the end of the input: file.rs lines 315-323
ParseEnd ==
    /\ parsed = None
    /\ lineno = Len(lines)
    /\ LET st == at_end(locals)
       IN /\ entry' = st.entry
          /\ entries' = st.entries
          /\ parsed' = IF is_some(st.err)
                       THEN Some([kind |-> unwrap(st.err), at |-> lineno + 1])
                       ELSE Some([kind |-> "Ok", at |-> lineno + 1,
                                  file |-> [header |-> st.header,
                                            commands |-> st.entries]])
    /\ UNCHANGED <<lines, lineno, header_state, header>>
    /\ UNCHANGED pure_vars
    /\ UNCHANGED exec_vars

MaxLines == 3

\* one line of each kind the parser tells apart
LineAlphabet ==
    { "make", "tests", "", "# note", "&&", "@---", "@env=a.env",
      "@disable", "@manual", "@tags=host", "@outfile=log.txt", "@retmap=1=>0",
      "@cd=sub", "@mkdir=build" }

\* the manifest of test_tags_parsing
TagsExample ==
    << "make", "@tags=host", "tests", "&&",
       "make", "@tags=target", "cross", "&&",
       "make", "@manual", "@tags=release,host", "install" >>

\* a manifest of test_header_basic_parse
HeaderExample ==
    << "@env=.env", "@---", "make", "@env=.env2", "tests", "&&",
       "make", "@disable", "install" >>

MaxItems == 2

\* the items of @tags values
TagItems == {"host", "target", "a=b", ""}

\* the items of @retmap definitions, well formed and not
RetmapItems ==
    { "1=>0", "1=>5", "2=>-1", "+3=>4", "1=>", "=>1", "1", "x=>1", "",
      "1=>0=>2", "1=> 0" }

RECURSIVE joined(_, _)
joined(items, sep) ==
    IF Len(items) = 1 THEN items[1]
    ELSE items[1] \o sep \o joined(Tail(items), sep)

\* the comma-separated lists of one to MaxItems of the items
csv_values(items) ==
    { joined(s, ",") : s \in UNION { [1..n -> items] : n \in 1..MaxItems } }

\* a task that is given a second @tags line, or a @retmap line
FlagTexts ==
    { << "make", "@tags=host", "@tags=" \o v >> : v \in csv_values(TagItems) }
        \cup { << "make", "@retmap=" \o v >> : v \in csv_values(RetmapItems) }
        \cup { << "@retmap=" \o v >> : v \in csv_values(RetmapItems) }
        \cup { << "make", "@tags=host", "@tags" >>, << "make", "@retmap" >> }

\* lines that start with `@` and are none of the flags, and flags written
\* without a value
StrangeLines ==
    { "@bogus", "@", "@Tags=host", "@tag=host", "@ tags=host", "@=x", "@--",
      "@disable=x", "@manual=x", "@disable=", "@manual=", "@env", "@cd",
      "@mkdir", "@outfile" }

StrangeTexts ==
    { << l >> : l \in StrangeLines }
        \cup { << "make", l >> : l \in StrangeLines }
        \cup { << "make", "&&", l >> : l \in StrangeLines }

\* a task that is given the same flag more than once
RepeatTexts ==
    { << "make", "@cd=sub", "@cd=other" >>,
      << "make", "@mkdir=build", "@mkdir=out" >>,
      << "make", "@outfile=log.txt", "@outfile=b.txt" >>,
      << "make", "@retmap=1=>0", "@retmap=2=>-1" >>,
      << "make", "@disable", "@manual", "@disable=", "@manual" >>,
      << "@env=h.env", "make", "@env=a.env", "@env=b.env", "@env=a.env" >> }

Texts ==
    UNION { [1..n -> LineAlphabet] : n \in 0..MaxLines }
        \cup {TagsExample, HeaderExample}
        \cup FlagTexts \cup StrangeTexts \cup RepeatTexts

InitParse ==
    /\ PureIdle
    /\ ExecIdle
    /\ lines \in Texts
    /\ lineno = 0
    /\ entry = None
    /\ entries = << >>
    /\ header_state = "Unknown"
    /\ header = [dotenvs |-> << >>]
    /\ parsed = None

NextParse == ParseLine \/ ParseEnd

SpecParse == InitParse /\ [][NextParse]_vars

----------------------------------------------------------------------------
(* Claims about parse_lines, stated over the text of the manifest.         *)

is_arg_text(l) == l # "&&" /\ ~starts_with(l, "@") /\ ~starts_with(l, "#")

sep_text(l) == starts_with(l, "@---")

TaskFlagPrefixes == {"@tags=", "@outfile=", "@retmap=", "@cd=", "@mkdir="}

\* the name of a flag line: the text between `@` and the first `=`
flag_name(l) ==
    LET eq == {i \in 2..Len(l) : char_at(l, i) = "="}
    IN IF eq = {} THEN SubSeq(l, 2, Len(l))
       ELSE SubSeq(l, 2, (CHOOSE i \in eq : \A j \in eq : i <= j) - 1)

\* the value of a flag line: the text after the first `=`, empty without one
flag_value(l) == SubSeq(l, Len(flag_name(l)) + 3, Len(l))

\* the text of an integer: an optional sign and one or more decimal digits
is_int_text(s) ==
    LET body == IF Len(s) > 0 /\ char_at(s, 1) \in {"+", "-"}
                THEN SubSeq(s, 2, Len(s)) ELSE s
    IN Len(body) > 0 /\ \A i \in 1..Len(body) : is_digit(char_at(body, i))

\* the items of a comma-separated value, in order
csv_list(v) ==
    LET cs == sorted_seq({i \in 1..Len(v) : char_at(v, i) = ","})
        n == Len(cs) + 1
        bound(k) == IF k = 0 THEN 0 ELSE IF k = n THEN Len(v) + 1 ELSE cs[k]
    IN [k \in 1..n |-> SubSeq(v, bound(k - 1) + 1, bound(k) - 1)]

\* an item of the form a=>b with a and b integers
pair_text(item) ==
    \E i \in 1..(Len(item) - 1) :
        /\ SubSeq(item, i, i + 1) = "=>"
        /\ is_int_text(SubSeq(item, 1, i - 1))
        /\ is_int_text(SubSeq(item, i + 2, Len(item)))

\* a well-formed @retmap definition
retmap_text(v) ==
    v # "" /\ \A k \in 1..Len(csv_list(v)) : pair_text(csv_list(v)[k])

TaskFlagNames == {"tags", "outfile", "cd", "mkdir"}

\* a task-scope flag line
task_flag_text(l) ==
    /\ starts_with(l, "@")
    /\ ~sep_text(l)
    /\ \/ flag_name(l) \in TaskFlagNames
       \/ flag_name(l) = "retmap" /\ retmap_text(flag_value(l))
       \/ flag_name(l) \in {"disable", "manual"} /\ flag_value(l) = ""

\* the `&&`-separated groups of a text
RECURSIVE groups_of(_)
groups_of(ls) ==
    IF \E i \in 1..Len(ls) : ls[i] = "&&"
    THEN LET i == CHOOSE k \in 1..Len(ls) :
                      ls[k] = "&&" /\ \A j \in 1..(k - 1) : ls[j] # "&&"
         IN << SubSeq(ls, 1, i - 1) >> \o groups_of(SubSeq(ls, i + 1, Len(ls)))
    ELSE << ls >>

\* the value of the last line of g that starts with prefix, if any
\* (a flag written without `=` has the empty value)
last_value(g, prefix) ==
    LET at == {k \in 1..Len(g) :
                  /\ starts_with(g[k], "@") /\ ~sep_text(g[k])
                  /\ "@" \o flag_name(g[k]) \o "=" = prefix}
    IN IF at = {} THEN None
       ELSE LET k == CHOOSE m \in at : \A n \in at : n <= m
            IN Some(flag_value(g[k]))

has_line(g, l) == \E k \in 1..Len(g) : g[k] = l \/ g[k] = l \o "="

\* the comma-separated items of a value: the texts between two neighbouring
\* commas (or ends) of it; the empty value has none
csv_items(v) ==
    LET commas == {i \in 1..Len(v) : char_at(v, i) = ","}
        starts == commas \cup {0}
        stops == commas \cup {Len(v) + 1}
    IN IF v = "" THEN {}
       ELSE { SubSeq(v, a + 1, b - 1) :
                  << a, b >> \in { ab \in starts \X stops :
                      /\ ab[1] < ab[2]
                      /\ \A c \in commas : ~(ab[1] < c /\ c < ab[2]) } }

\* the tag sets written in the texts
TagsWritten == ("host" :> {"host"}) @@ ("target" :> {"target"})
                   @@ ("release,host" :> {"release", "host"})

tags_of(g) ==
    IF is_none(last_value(g, "@tags=")) THEN {}
    ELSE LET v == unwrap(last_value(g, "@tags="))
         IN IF v \in DOMAIN TagsWritten THEN TagsWritten[v] ELSE csv_items(v)

finished_ok == is_some(parsed) /\ unwrap(parsed).kind = "Ok"

commands == unwrap(parsed).file.commands

\* C16: a successful parse yields one task per `&&`-separated group, in input
\* order; the arguments of a task are the non-flag, non-comment lines of its
\* group in order, and each flag of a task is set by the flag lines of its own
\* group and by no other; the three-task example yields tags {host}, {target},
\* {release,host} and arguments [make,tests], [make,cross], [make,install].
C16_OneTaskPerGroup ==
    /\ finished_ok =>
         LET gs == groups_of(lines)
         IN /\ Len(commands) = Len(gs)
            /\ \A i \in 1..Len(gs) :
                 /\ commands[i].args = SelectSeq(gs[i], is_arg_text)
                 /\ commands[i].disabled = has_line(gs[i], "@disable")
                 /\ commands[i].manual = has_line(gs[i], "@manual")
                 /\ commands[i].tags = tags_of(gs[i])
                 /\ commands[i].cd = last_value(gs[i], "@cd=")
                 /\ commands[i].mkdir = last_value(gs[i], "@mkdir=")
                 /\ commands[i].outfile = last_value(gs[i], "@outfile=")
                 /\ (commands[i].retmap # EmptyMap) =
                        is_some(last_value(gs[i], "@retmap="))
    /\ (lines = TagsExample /\ is_some(parsed)) =>
         /\ finished_ok
         /\ [i \in 1..Len(commands) |-> commands[i].tags] =
                << {"host"}, {"target"}, {"release", "host"} >>
         /\ [i \in 1..Len(commands) |-> commands[i].args] =
                << << "make", "tests" >>, << "make", "cross" >>,
                   << "make", "install" >> >>

\* the three-task example was parsed
C16_Witness ==
    /\ lines = TagsExample
    /\ finished_ok
    /\ Len(commands) = 3
    /\ commands[3].manual /\ ~commands[1].manual

\* the parse reached the end of the input
ended == is_some(parsed) /\ unwrap(parsed).at = Len(lines) + 1

\* line i opens a task: an argument line with no argument line before it
\* since the last `&&`
opening(i) ==
    /\ is_arg_text(lines[i])
    /\ \A j \in 1..(i - 1) :
         is_arg_text(lines[j]) => \E k \in (j + 1)..(i - 1) : lines[k] = "&&"

openings == sorted_seq({i \in 1..Len(lines) : opening(i)})

\* a task is open after line n
open_after(n) ==
    \E i \in 1..n : is_arg_text(lines[i]) /\ \A j \in (i + 1)..n : lines[j] # "&&"

every_opened_listed ==
    /\ Len(commands) = Len(openings)
    /\ \A n \in 1..Len(openings) : commands[n].args[1] = lines[openings[n]]

\* C17 as stated: at end of input the parse fails (EmptyEntry) only if no
\* task was ever opened; when one was, it returns Ok with every opened task.
C17_Original ==
    ended =>
        /\ unwrap(parsed).kind \in {"Ok", "EmptyEntry"}
        /\ unwrap(parsed).kind = "Ok" <=> openings # << >>
        /\ unwrap(parsed).kind = "Ok" => every_opened_listed

\* C17 (amended): at end of input the parse closes and appends a still-open
\* task and returns Ok with every opened task in the list; it fails, with
\* EmptyEntry, exactly when no task is open then: no task was ever opened, or
\* the last one was closed by a `&&` that no argument line follows.
C17_EndOfInput ==
    ended =>
        /\ unwrap(parsed).kind \in {"Ok", "EmptyEntry"}
        /\ unwrap(parsed).kind = "Ok" <=> open_after(Len(lines))
        /\ unwrap(parsed).kind = "Ok" => every_opened_listed

\* two tasks, the second still open at the end of the input
C17_Witness ==
    /\ lines = << "make", "&&", "tests" >>
    /\ finished_ok
    /\ Len(commands) = 2
    /\ commands[2].args = << "tests" >>

\* C18: a `&&` line closes the open task and appends it to the task list; a
\* `&&` line met while no task is open (first content line, or directly after
\* another `&&`) makes the parse fail with EmptyEntry.
C18_EndClosesOpenTask ==
    [][(lineno' = lineno + 1 /\ lines[lineno'] = "&&") =>
          /\ is_some(entry) <=> open_after(lineno)
          /\ IF open_after(lineno)
             THEN /\ entries' = Append(entries, unwrap(entry))
                  /\ entry' = None
                  /\ parsed' = None
             ELSE /\ parsed' = Some([kind |-> "EmptyEntry", at |-> lineno'])
                  /\ entries' = entries
                  /\ entry' = None]_vars

\* a `&&` closed the first task and the `&&` right after it failed the parse
C18_Witness ==
    /\ lines = << "make", "&&", "&&" >>
    /\ parsed = Some([kind |-> "EmptyEntry", at |-> 3])
    /\ Len(entries) = 1
    /\ entries[1].args = << "make" >>

\* C19: a task-scope flag line met while no task is open, at the start of the
\* file or directly after `&&`, makes the parse fail with FlagBeforeCommand;
\* a flag changes the open task only: never a task that was closed, and with
\* no task open it is not kept for the next one.
C19_FlagNeedsOpenTask ==
    [][/\ (lineno' = lineno + 1 /\ task_flag_text(lines[lineno'])) =>
            /\ is_some(entry) <=> open_after(lineno)
            /\ IF open_after(lineno)
               THEN /\ parsed' = None
                    /\ is_some(entry')
                    /\ unwrap(entry').args = unwrap(entry).args
               ELSE /\ parsed' = Some([kind |-> "FlagBeforeCommand", at |-> lineno'])
                    /\ entry' = None
       /\ \A i \in 1..Len(entries) : Len(entries') >= i /\ entries'[i] = entries[i]
      ]_vars

\* a flag right after `&&` failed the parse and left the closed task as it was
C19_Witness ==
    /\ lines = << "make", "&&", "@disable" >>
    /\ parsed = Some([kind |-> "FlagBeforeCommand", at |-> 3])
    /\ entries = << CmdNew("make") >>

\* a line that puts the parser in body state
body_text(l) == is_arg_text(l) \/ task_flag_text(l) \/ l = "&&" \/ sep_text(l)

\* C20: the separator is accepted only in header state Unknown or InHeader
\* and then moves the parser to InBody; in body state, which the parser is in
\* after any argument line, task-scope flag, `&&` or separator, it fails with
\* InvalidHeaderField.
C20_SeparatorOnlyBeforeBody ==
    [][/\ (lineno' = lineno + 1 /\ sep_text(lines[lineno'])) =>
            IF header_state \in {"Unknown", "InHeader"}
            THEN /\ header_state' = "InBody"
                 /\ parsed' = None
                 /\ UNCHANGED <<entry, entries, header>>
            ELSE parsed' = Some([kind |-> "InvalidHeaderField", at |-> lineno'])
       /\ (header_state' = "InBody") <=>
              \E i \in 1..lineno' : body_text(lines[i])
      ]_vars

\* a first separator was accepted and a second one, after an argument line,
\* failed the parse
C20_Witness ==
    /\ lines = << "@---", "make", "@---" >>
    /\ parsed = Some([kind |-> "InvalidHeaderField", at |-> 3])
    /\ header_state = "InBody"

\* the value of a line that starts with prefix
value_after(l, prefix) == SubSeq(l, Len(prefix) + 1, Len(l))

\* the body has started before line n + 1
body_before(n) == \E i \in 1..n : body_text(lines[i])

\* C21: an @env=<path> line is header-scope (appended to the header's list,
\* no task changed) iff no argument line, task-scope flag, `&&` or separator
\* precedes it; otherwise it is appended to the env-file list of the open
\* task, the header left unchanged, and with no task open the parse fails
\* with FlagBeforeCommand.
C21_EnvScope ==
    [][(lineno' = lineno + 1 /\ starts_with(lines[lineno'], "@env=")) =>
          LET e == value_after(lines[lineno'], "@env=")
          IN IF ~body_before(lineno)
             THEN /\ header'.dotenvs = Append(header.dotenvs, e)
                  /\ UNCHANGED <<entry, entries>>
                  /\ parsed' = None
             ELSE IF open_after(lineno)
             THEN /\ is_some(entry')
                  /\ unwrap(entry') =
                         [unwrap(entry) EXCEPT !.dotenvs = Append(@, e)]
                  /\ UNCHANGED <<header, entries>>
                  /\ parsed' = None
             ELSE /\ parsed' = Some([kind |-> "FlagBeforeCommand", at |-> lineno'])
                  /\ UNCHANGED <<header, entries, entry>>]_vars

\* one @env line went to the header and a later one to the first task
C21_Witness ==
    /\ lines = HeaderExample
    /\ finished_ok
    /\ unwrap(parsed).file.header.dotenvs = << ".env" >>
    /\ commands[1].dotenvs = << ".env2" >>
    /\ commands[2].dotenvs = << >>

\* C22: @tags=<csv> replaces the tag set of the open task with the set of the
\* comma-separated items of the value, an item being free to contain `=`; the
\* empty value gives the empty set and not the set holding the empty string.
C22_TagsReplace ==
    [][(/\ lineno' = lineno + 1
        /\ starts_with(lines[lineno'], "@")
        /\ flag_name(lines[lineno']) = "tags"
        /\ open_after(lineno)) =>
          LET v == flag_value(lines[lineno'])
          IN /\ is_some(entry) /\ is_some(entry')
             /\ unwrap(entry') = [unwrap(entry) EXCEPT !.tags = csv_items(v)]
             /\ (v = "" => unwrap(entry').tags = {})
             /\ parsed' = None]_vars

\* a second @tags line replaced {host} by two items, one of them with an `=`
C22_Witness ==
    /\ lines = << "make", "@tags=host", "@tags=a=b,target" >>
    /\ finished_ok
    /\ commands[1].tags = {"a=b", "target"}

\* the pairs written in the well-formed items of the texts
PairsWritten ==
    ("1=>0" :> << 1, 0 >>) @@ ("1=>5" :> << 1, 5 >>) @@ ("2=>-1" :> << 2, -1 >>)
        @@ ("+3=>4" :> << 3, 4 >>)

\* the map of the pairs of a list of items, a later pair replacing an
\* earlier one of the same code
RECURSIVE map_written(_)
map_written(items) ==
    IF items = << >> THEN EmptyMap
    ELSE LET p == PairsWritten[items[Len(items)]]
         IN (p[1] :> p[2]) @@ map_written(SubSeq(items, 1, Len(items) - 1))

\* C23: @retmap=<def> is accepted iff def is a non-empty comma-separated list
\* whose every item has the form a=>b with a and b integers, and then gives
\* the open task exactly the map of those pairs; an empty definition, an item
\* without `=>`, a trailing comma or a non-integer side fails the parse with
\* InvalidRetMapDefinition, so that no task is produced.
C23_RetmapDefinition ==
    [][(/\ lineno' = lineno + 1
        /\ starts_with(lines[lineno'], "@")
        /\ flag_name(lines[lineno']) = "retmap") =>
          LET v == flag_value(lines[lineno'])
          IN IF retmap_text(v)
             THEN open_after(lineno) =>
                    /\ parsed' = None
                    /\ is_some(entry) /\ is_some(entry')
                    /\ unwrap(entry') =
                         [unwrap(entry) EXCEPT !.retmap = map_written(csv_list(v))]
             ELSE /\ parsed' =
                         Some([kind |-> "InvalidRetMapDefinition", at |-> lineno'])
                  /\ UNCHANGED <<entry, entries>>]_vars

\* a definition of two pairs was accepted
C23_Witness ==
    /\ lines = << "make", "@retmap=2=>-1,+3=>4" >>
    /\ finished_ok
    /\ commands[1].retmap = (2 :> -1) @@ (3 :> 4)

FlagNames ==
    {"disable", "manual", "tags", "outfile", "retmap", "cd", "mkdir", "env"}

\* C24: a line that begins with `@`, is not the separator, and whose flag name
\* is none of disable, manual, tags, outfile, retmap, cd, mkdir, env fails the
\* parse with InvalidTag, and so does @disable or @manual with a non-empty
\* value; the error is raised whether or not a task is open.
C24_UnknownFlagIsInvalidTag ==
    [][(/\ lineno' = lineno + 1
        /\ starts_with(lines[lineno'], "@")
        /\ ~sep_text(lines[lineno'])
        /\ \/ flag_name(lines[lineno']) \notin FlagNames
           \/ /\ flag_name(lines[lineno']) \in {"disable", "manual"}
              /\ flag_value(lines[lineno']) # "") =>
          /\ parsed' = Some([kind |-> "InvalidTag", at |-> lineno'])
          /\ UNCHANGED <<entry, entries, header>>]_vars

\* @disable with a value was refused while a task was open
C24_Witness ==
    /\ lines = << "make", "@disable=x" >>
    /\ parsed = Some([kind |-> "InvalidTag", at |-> 2])
    /\ is_some(entry)

\* C29: every successfully parsed manifest has at least one task, and every
\* task has a non-empty argument list whose element 0 is the line that opened
\* it; no parse returns Ok with no task or with a task without arguments.
C29_TasksHaveArguments ==
    finished_ok =>
        /\ Len(commands) >= 1
        /\ Len(commands) = Len(openings)
        /\ \A n \in 1..Len(commands) :
             /\ commands[n].args # << >>
             /\ commands[n].args[1] = lines[openings[n]]

\* a manifest of two tasks was parsed, the second opened by its third line
C29_Witness ==
    /\ lines = << "make", "&&", "tests" >>
    /\ finished_ok
    /\ Len(commands) = 2
    /\ commands[2].args = << "tests" >>
    /\ openings = << 1, 3 >>

-----------------------------------------------------------------------------
(* Claims about the environment files of Exec::run.                        *)

is_load(c) == c.op = "load_global_dotenv_"

\* the loads made so far, as (name, allow_missing) pairs in call order
loads_made ==
    LET ls == SelectSeq(calls, is_load)
    IN [k \in 1..Len(ls) |-> << ls[k].name, ls[k].allow_missing >>]

\* a load failed
load_failed == \E k \in 1..Len(calls) : is_load(calls[k]) /\ calls[k].res = "Err"

\* the header was applied
header_applied == pc \notin {"idle", "apply_header"}

\* every load precedes every notice and every task
loads_first ==
    \A j, k \in 1..Len(calls) : (is_load(calls[k]) /\ ~is_load(calls[j])) => k < j

declared == file.header.dotenvs

\* the declared files as loads, none tolerated missing
declared_loads == [k \in 1..Len(declared) |-> << declared[k], FALSE >>]

\* s is a prefix of t
is_prefix(s, t) == Len(s) <= Len(t) /\ s = SubSeq(t, 1, Len(s))

\* the declared files are loaded in declaration order and not the default,
\* up to the first that fails
loads_declared ==
    /\ is_prefix(loads_made, declared_loads)
    /\ ~load_failed => loads_made = declared_loads

\* a load error is what Exec::run returns, and nothing but loads was called
load_error_returned ==
    load_failed =>
        /\ pc = "done"
        /\ result = Some(Err("Dotenv", 0))
        /\ \A k \in 1..Len(calls) : is_load(calls[k])
        /\ calls[Len(calls)].res = "Err"

\* C26 as stated: loading comes before any notice or task; a header without
\* env files has the default file alone loaded, missing tolerated; a header
\* with env files has each loaded in declaration order and not the default;
\* a load error is returned with no notice emitted and no task run.
C26_Original ==
    header_applied =>
        /\ loads_first
        /\ IF declared = << >>
           THEN loads_made = << << ".upbuild.env", TRUE >> >>
           ELSE loads_declared
        /\ load_error_returned

\* C26: as C26_Original, but for a header without env files the default file
\* is loaded only when skip_env is not set; with skip_env set nothing is
\* loaded for such a header.
C26_HeaderEnvFirst ==
    header_applied =>
        /\ loads_first
        /\ IF declared = << >>
           THEN loads_made = IF cfg.skip_env THEN << >>
                             ELSE << << ".upbuild.env", TRUE >> >>
           ELSE loads_declared
        /\ load_error_returned

\* the second of two declared files failed to load and the run returned
C26_Witness ==
    /\ declared = << "a.env", "b.env" >>
    /\ pc = "done"
    /\ Len(calls) = 2
    /\ loads_made = << << "a.env", FALSE >>, << "b.env", FALSE >> >>
    /\ calls[1].res = "Ok" /\ calls[2].res = "Err"
    /\ result = Some(Err("Dotenv", 0))

\* C27: for each executed task that declares task-level @env files, those
\* files are loaded through the Runner in declaration order, after the
\* header-level files and before the command of the task is run.
C27_TaskEnvLoaded ==
    \A j \in positions("run") :
        LET d == cmd_at(calls[j].task).dotenvs
        IN d # << >> =>
             \E f \in [1..Len(d) -> 1..(j - 1)] :
                 \A n \in 1..Len(d) :
                     /\ is_load(calls[f[n]])
                     /\ calls[f[n]].name = d[n]
                     /\ f[n] > Len(header_loads)
                     /\ n > 1 => f[n - 1] < f[n]

-----------------------------------------------------------------------------
(* src/main.rs: the program from the manifest's lines to its exit status.  *)
(* run() finds and reads the manifest, parses it (ParseLine, ParseEnd),    *)
(* and hands the parsed file to Exec::run (the actions of Spec); main()    *)
(* turns what run() returns into the exit status.  `result` holds what     *)
(* run() returns, `output` what main() returns.                            *)

\* a mutant of parse_failed: the `?` after parse_lines lets an error through
parse_failed_never(r) == FALSE

\* main.rs line 26: the `?` applied to what parse_lines returns
parse_failed(r) == r.kind # "Ok"

\* main.rs lines 20-24: find or File::open fails and run() returns the error
MainFindFails ==
    /\ pc = "idle"
    /\ lineno = 0
    /\ parsed = None
    /\ \E kind \in {"NotFound", "IoFailed"} : result' = Some(Err(kind, 0))
    /\ pc' = "done"
    /\ UNCHANGED <<path, file, cfg, provided_args, idx, last_dir, calls>>
    /\ UNCHANGED pure_vars
    /\ UNCHANGED parse_vars

\* main.rs lines 22-26: parse_lines takes the next line of the manifest
MainParseLine == pc = "idle" /\ ParseLine

\* main.rs lines 22-26: parse_lines reaches the end of the manifest
MainParseEnd == pc = "idle" /\ ParseEnd

\* main.rs line 26: parse_lines returned an error and run() returns it
MainParseFails ==
    /\ pc = "idle"
    /\ is_some(parsed)
    /\ parse_failed(unwrap(parsed))
    /\ result' = Some(Err(unwrap(parsed).kind, 0))
    /\ pc' = "done"
    /\ UNCHANGED <<path, file, cfg, provided_args, idx, last_dir, calls>>
    /\ UNCHANGED pure_vars
    /\ UNCHANGED parse_vars

\* where the manifest was found and what was passed on the command line
MainSetups ==
    { DefaultSetup,
      [DefaultSetup EXCEPT !.path = "./../.upbuild", !.provided_args = << "all" >>] }

\* main.rs lines 28-37: Exec::run is called on the parsed file
MainExec ==
    /\ pc = "idle"
    /\ is_some(parsed)
    /\ ~parse_failed(unwrap(parsed))
    /\ \E s \in MainSetups :
         /\ path' = s.path
         /\ cfg' = [select |-> s.select, reject |-> s.reject,
                    skip_env |-> s.skip_env, argv0 |-> "/usr/bin/upbuild"]
         /\ provided_args' = s.provided_args
    /\ file' = [header |-> header, commands |-> entries]
    /\ pc' = "apply_header"
    /\ UNCHANGED <<idx, last_dir, calls, result>>
    /\ UNCHANGED pure_vars
    /\ UNCHANGED parse_vars

U8Max == 255

I32Max == 2147483647

\* u8::try_from
u8_try_from(c) == IF 0 <= c /\ c <= U8Max THEN Some(c) ELSE None

\* i32::try_from
i32_try_from(c) == IF 0 - I32Max - 1 <= c /\ c <= I32Max THEN Some(c) ELSE None

\* ExitCode::SUCCESS and ExitCode::FAILURE
ExitSuccess == 0

ExitFailure == 1

\* what main() ends with: the exit status, and whether a message was printed
Exit(status, message) == [status |-> status, message |-> message]

\* a mutant of main_exit: an exit code is cut down to its low eight bits
main_exit_truncating(r, windows) ==
    IF r.kind = "Ok" THEN Exit(ExitSuccess, FALSE)
    ELSE IF r.kind = "ExitWithExitCode" THEN Exit(r.code % (U8Max + 1), FALSE)
    ELSE Exit(ExitFailure, TRUE)

\* main.rs lines 41-65: the match on what run() returned
main_exit(r, windows) ==
    IF r.kind = "Ok" THEN Exit(ExitSuccess, FALSE)
    ELSE IF r.kind = "ExitWithExitCode"
    THEN IF is_some(u8_try_from(r.code))
         THEN Exit(unwrap(u8_try_from(r.code)), FALSE)
         ELSE IF windows /\ is_some(i32_try_from(r.code))
         THEN Exit(unwrap(i32_try_from(r.code)), FALSE)
         ELSE Exit(ExitFailure, TRUE)
    ELSE Exit(ExitFailure, TRUE)

\* main.rs lines 40-66: main() returns
MainExit ==
    /\ pc = "done"
    /\ fn = ""
    /\ \E windows \in BOOLEAN :
         /\ input' = << windows >>
         /\ output' = Some(main_exit(unwrap(result), windows))
    /\ fn' = "main"
    /\ UNCHANGED exec_vars
    /\ UNCHANGED parse_vars

\* the lines of the manifests the program is run on
MainAlphabet ==
    { "make", "upbuild", "&&", "@cd=sub", "@disable", "@bogus",
      "@retmap=1=>300,2=>-1", "@retmap=1=>255,2=>256" }

MainTexts == UNION { [1..n -> MainAlphabet] : n \in 0..MaxLines }

InitMain ==
    /\ PureIdle
    /\ ExecIdle
    /\ lines \in MainTexts
    /\ lineno = 0
    /\ entry = None
    /\ entries = << >>
    /\ header_state = "Unknown"
    /\ header = [dotenvs |-> << >>]
    /\ parsed = None

NextMain ==
    \/ MainFindFails \/ MainParseLine \/ MainParseEnd \/ MainParseFails
    \/ MainExec
    \/ ApplyHeader \/ EnterMain \/ SkipCmd \/ StartCmd \/ FinishCmd \/ ReturnOk
    \/ MainExit

SpecMain == InitMain /\ [][NextMain]_vars

-----------------------------------------------------------------------------
(* Claims about the whole program.                                         *)

parse_error == is_some(parsed) /\ unwrap(parsed).kind # "Ok"

exited == is_some(output)

\* C25: a parse error anywhere in the manifest, its last line included, is
\* fatal before any task executes: for a manifest that fails to parse the
\* program makes no Runner call (no env load, no notice, no mkdir, no run)
\* and returns the parse error.
C25_ParseErrorBeforeAnyCall ==
    /\ parse_error =>
         /\ calls = << >>
         /\ pc \in {"idle", "done"}
         /\ pc = "done" => result = Some(Err(unwrap(parsed).kind, 0))
    /\ calls # << >> => finished_ok

\* an unknown flag on the last line: the program exited without a Runner call
C25_Witness ==
    /\ lines = << "make", "@bogus" >>
    /\ parsed = Some([kind |-> "InvalidTag", at |-> 2])
    /\ exited
    /\ calls = << >>

\* the run completed
completed == result = Some(Ok(0))

\* the mapped codes the run was aborted with
abort_codes ==
    { mapped(task_of(calls[k].task), calls[k].res.code) :
        k \in {j \in positions("run_returned") : calls[j].res.kind = "Ok"} } \ {0}

\* C28: a run that completes exits 0; a run aborted with mapped code c exits
\* with exactly c when 1 <= c <= 255, and with the generic failure code after
\* an error message when c is negative or above 255 (on non-Windows
\* platforms); every other error, signal termination included, exits with
\* the generic failure code.
C28_ExitStatus ==
    exited =>
        LET o == unwrap(output)
            windows == input[1]
        IN /\ completed => o = [status |-> 0, message |-> FALSE]
           /\ \A c \in abort_codes :
                /\ result = exit_code(c)
                /\ IF 1 <= c /\ c <= 255
                   THEN o = [status |-> c, message |-> FALSE]
                   ELSE ~windows => o = [status |-> ExitFailure, message |-> TRUE]
           /\ (~completed /\ abort_codes = {}) =>
                /\ unwrap(result).kind \notin {"Ok", "ExitWithExitCode"}
                /\ o.status = ExitFailure
           /\ unwrap(result).kind = "ExitWithSignal" => o.status = ExitFailure

\* a task mapped raw code 1 to 300 and the program exited with the generic
\* failure code
C28_Witness ==
    /\ exited
    /\ input = << FALSE >>
    /\ result = exit_code(300)
    /\ unwrap(output) = [status |-> ExitFailure, message |-> TRUE]

\* C30: the recurse flag of a task is true iff the line that opened it is
\* exactly `upbuild`; later argument lines equal to `upbuild` and flags such
\* as @cd never change it; a recurse task with an explicit @cd runs in that
\* @cd directory, not in the parent directory, with argv[0] still replaced.
C30_RecurseFromOpeningLine ==
    /\ finished_ok =>
         /\ Len(commands) = Len(openings)
         /\ \A n \in 1..Len(commands) :
              commands[n].recurse = (lines[openings[n]] = "upbuild")
    /\ \A k \in positions("run") :
         LET c == task_of(calls[k].task)
         IN (c.recurse /\ is_some(c.cd)) =>
              /\ is_run_dir_of(calls[k].cd, c, main_working_dir)
              /\ ~is_run_dir_of(calls[k].cd, [c EXCEPT !.cd = None], main_working_dir)
              /\ calls[k].cmd[1] = cfg.argv0

\* a recurse task with @cd=sub and a later argument line `upbuild` was run in
\* sub as /usr/bin/upbuild
C30_Witness ==
    /\ lines = << "upbuild", "@cd=sub", "upbuild" >>
    /\ \E k \in positions("run") :
         /\ task_of(calls[k].task).recurse
         /\ calls[k].cd = Some("sub")
         /\ calls[k].cmd = << "/usr/bin/upbuild", "upbuild" >>

-----------------------------------------------------------------------------
(* Further claims about parse_lines.                                       *)

\* C34: in every parser state, header state Unknown or InHeader means that no
\* task is open and the task list is empty; once a task has been opened the
\* header state is InBody, it stays InBody for the rest of the parse, and the
\* header's env-file list never changes again.
C34_HeaderStateInvariant ==
    /\ [](header_state \in {"Unknown", "InHeader"} =>
              (entry = None /\ entries = << >>))
    /\ [][header_state = "InBody" =>
              (header_state' = "InBody" /\ header' = header)]_vars

\* a header env file, then an open task in body state with its own env file
C34_Witness ==
    /\ lines = << "@env=a.env", "make", "@env=a.env" >>
    /\ lineno = 3
    /\ header_state = "InBody"
    /\ header.dotenvs = << "a.env" >>
    /\ is_some(entry)
    /\ unwrap(entry).dotenvs = << "a.env" >>

\* the lines of the open task taken so far: from its opening line on
open_lines ==
    LET from == CHOOSE i \in 1..lineno :
                    opening(i) /\ \A j \in (i + 1)..lineno : ~opening(j)
    IN SubSeq(lines, from, lineno)

is_env_text(l) == starts_with(l, "@") /\ ~sep_text(l) /\ flag_name(l) = "env"

\* the values of the @env lines of g, in order
env_values(g) ==
    LET es == SelectSeq(g, is_env_text)
    IN [k \in 1..Len(es) |-> flag_value(es[k])]

\* C36: when the open task is given a flag more than once, the last
\* occurrence wins for @tags, @retmap, @cd, @mkdir and @outfile, the earlier
\* value being replaced and never merged; @disable and @manual, once given,
\* stay set; @env accumulates every occurrence in order.
C36_LastFlagWins ==
    (is_some(entry) /\ parsed = None) =>
        LET g == open_lines
            cmd == unwrap(entry)
            tags == last_value(g, "@tags=")
            retmap == last_value(g, "@retmap=")
        IN /\ cmd.cd = last_value(g, "@cd=")
           /\ cmd.mkdir = last_value(g, "@mkdir=")
           /\ cmd.outfile = last_value(g, "@outfile=")
           /\ cmd.tags = IF is_some(tags) THEN csv_items(unwrap(tags)) ELSE {}
           /\ cmd.retmap = IF is_some(retmap)
                           THEN map_written(csv_list(unwrap(retmap)))
                           ELSE EmptyMap
           /\ cmd.disabled = has_line(g, "@disable")
           /\ cmd.manual = has_line(g, "@manual")
           /\ cmd.dotenvs = env_values(g)

\* a second @retmap replaced the first, nothing of the first map being kept
C36_Witness ==
    /\ lines = << "make", "@retmap=1=>0", "@retmap=2=>-1" >>
    /\ lineno = 3
    /\ is_some(entry)
    /\ unwrap(entry).retmap = (2 :> -1)

\* C37: an empty line is not skipped: it is an argument line, which opens a
\* task whose executable name is the empty string when no task is open and is
\* appended as an empty argument when one is, and it moves the header state
\* to InBody.
C37_EmptyLineIsArgument ==
    [][(lineno' = lineno + 1 /\ lines[lineno'] = "") =>
          /\ parsed' = None
          /\ header_state' = "InBody"
          /\ is_some(entry')
          /\ unwrap(entry').args =
                 IF is_some(entry) THEN Append(unwrap(entry).args, "")
                 ELSE << "" >>
          /\ is_none(entry) => ~unwrap(entry').recurse
          /\ UNCHANGED <<entries, header>>]_vars

\* an empty line opened a task and a second one became its argument
C37_Witness ==
    /\ lines = << "", "" >>
    /\ finished_ok
    /\ commands = << append_arg(CmdNew(""), "") >>

-----------------------------------------------------------------------------
(* Further claims about Exec::run.                                         *)

\* the positions of the calls of kind op made for task i
calls_of(i, op) == {k \in positions(op) : calls[k].task = i}

\* every position of A is before every position of B
all_before(A, B) == \A a \in A, b \in B : a < b

\* C33: for each executed task the Runner calls come in the order: directory
\* creation for @mkdir (if set), the entering-directory notice (if the run
\* directory changed), Runner.run, outfile streaming (if set and the mapped
\* code is 0); the directory is created and the notice emitted before the
\* command starts, and both have happened when the command then fails.
C33_CallOrderPerTask ==
    \A k \in positions("run") :
        LET i == calls[k].task
            cmd == task_of(i)
            created == calls_of(i, "check_mkdir")
            entered == calls_of(i, "on_enter_dir")
            finished == calls_of(i, "run_returned")
            shown == calls_of(i, "display_output")
        IN /\ calls_of(i, "run") = {k}
           /\ Cardinality(created) = (IF is_some(cmd.mkdir) THEN 1 ELSE 0)
           /\ Cardinality(entered) =
                  (IF opt_path_eq(calls[k].cd, previous_dir(k)) THEN 0 ELSE 1)
           /\ all_before(created, entered) /\ all_before(created, {k})
           /\ all_before(entered, {k})
           /\ all_before({k}, finished) /\ all_before(finished, shown)
           /\ Cardinality(finished) <= 1
           /\ \A r \in finished :
                Cardinality(shown) =
                    (IF /\ is_some(cmd.outfile)
                        /\ calls[r].res.kind = "Ok"
                        /\ mapped(cmd, calls[r].res.code) = 0
                     THEN 1 ELSE 0)
           /\ finished = {} => shown = {}

\* a task with @mkdir, @cd and @outfile: the directory was created, the
\* notice emitted, the command run and, the command having finished 0, the
\* outfile streamed, in that order
C33_Witness ==
    /\ Len(calls) >= 6
    /\ calls[2].op = "check_mkdir" /\ calls[2].task = 1
    /\ calls[3].op = "on_enter_dir" /\ calls[3].task = 1
    /\ calls[4].op = "run" /\ calls[4].task = 1
    /\ calls[5].op = "run_returned" /\ calls[5].res = Ok(0)
    /\ calls[6].op = "display_output" /\ calls[6].task = 1

\* C35: with skip_env set Exec::run loads no environment file at all,
\* neither the default file nor a file declared in the header.
C35_SkipEnvLoadsNothing ==
    cfg.skip_env => \A k \in 1..Len(calls) : ~is_load(calls[k])

\* the run call that precedes position k for the same task
run_before(k) ==
    CHOOSE r \in positions("run") : calls[r].task = calls[k].task

\* C38: the path given to the Runner for outfile streaming is the literal
\* @outfile value of the task: it is joined neither with the base directory
\* of the manifest nor with the run directory of the task, and so is the same
\* whatever directory the command ran in.
C38_OutfileLiteral ==
    \A k \in positions("display_output") :
        LET cmd == task_of(calls[k].task)
            rd == calls[run_before(k)].cd
        IN /\ is_some(cmd.outfile)
           /\ calls[k].file = unwrap(cmd.outfile)
           /\ is_some(main_working_dir) =>
                calls[k].file # join(unwrap(main_working_dir), unwrap(cmd.outfile))
           /\ is_some(rd) => calls[k].file # join(unwrap(rd), unwrap(cmd.outfile))

\* a task run in ./../../sub whose outfile was streamed from out.txt
C38_Witness ==
    \E k \in positions("display_output") :
        /\ calls[k].file = "out.txt"
        /\ task_of(calls[k].task).cd = Some("sub")
        /\ is_some(main_working_dir)
        /\ calls[run_before(k)].cd = Some(join(unwrap(main_working_dir), "sub"))

-----------------------------------------------------------------------------
(* src/cfg.rs: Config::parse over bounded command lines.                   *)

\* impl Default for Config
ConfigDefault ==
    [ print |-> FALSE, skip_env |-> FALSE, select |-> {}, reject |-> {},
      add |-> FALSE, argv0 |-> "upbuild", completion |-> None ]

\* a mutant of apply_tags: the tag is not removed from the other set
apply_tags_keep_other(arg, add_to, drop_from) ==
    LET parts == split_once(arg, "=")
    IN IF is_some(parts) /\ unwrap(parts)[2] # ""
       THEN [ok |-> TRUE, add_to |-> add_to \cup {unwrap(parts)[2]},
             drop_from |-> drop_from]
       ELSE [ok |-> FALSE, add_to |-> add_to, drop_from |-> drop_from]

\* apply_tags: what it returns, and the two sets as it leaves them
apply_tags(arg, add_to, drop_from) ==
    LET parts == split_once(arg, "=")
    IN IF is_some(parts) /\ unwrap(parts)[2] # ""
       THEN [ok |-> TRUE, add_to |-> add_to \cup {unwrap(parts)[2]},
             drop_from |-> drop_from \ {unwrap(parts)[2]}]
       ELSE [ok |-> FALSE, add_to |-> add_to, drop_from |-> drop_from]

\* what Config::parse returns: the arguments left in the iterator, and cfg
Parsed(rest, c) == [rest |-> rest, cfg |-> c]

\* a mutant of on_double_dash: the `--` is left in the iterator
on_double_dash_kept(args, c) == Parsed(args, c)

\* Config::parse, the arm `"" => { args.next(); break; }`
on_double_dash(args, c) == Parsed(Tail(args), c)

RECURSIVE parse_loop(_, _)
\* Config::parse, the loop `while let Some(arg) = args.peek()`
parse_loop(args, c) ==
    IF args = << >> THEN Parsed(args, c)
    ELSE LET arg == Head(args)
             s == SubSeq(arg, 3, Len(arg))
         IN IF ~starts_with(arg, "--") THEN Parsed(args, c)
            ELSE IF s = "ub-print"
            THEN parse_loop(Tail(args), [c EXCEPT !.print = TRUE])
            ELSE IF s = "ub-no-env"
            THEN parse_loop(Tail(args), [c EXCEPT !.skip_env = TRUE])
            ELSE IF s = "ub-add"
            THEN parse_loop(Tail(args), [c EXCEPT !.add = TRUE])
            ELSE IF s = "ub-completion-list-tags"
            THEN parse_loop(Tail(args), [c EXCEPT !.completion = Some("PrintTags")])
            ELSE IF s = "" THEN on_double_dash(args, c)
            ELSE IF starts_with(arg, "--ub-select=")
            THEN LET r == apply_tags(arg, c.select, c.reject)
                 IN IF r.ok
                    THEN parse_loop(Tail(args), [c EXCEPT !.select = r.add_to,
                                                          !.reject = r.drop_from])
                    ELSE Parsed(args, c)
            ELSE IF starts_with(arg, "--ub-reject=")
            THEN LET r == apply_tags(arg, c.reject, c.select)
                 IN IF r.ok
                    THEN parse_loop(Tail(args), [c EXCEPT !.reject = r.add_to,
                                                          !.select = r.drop_from])
                    ELSE Parsed(args, c)
            ELSE Parsed(args, c)

\* Config::parse
Config_parse(argv) ==
    IF argv = << >> THEN parse_loop(argv, ConfigDefault)
    ELSE parse_loop(Tail(argv), [ConfigDefault EXCEPT !.argv0 = Head(argv)])

MaxOpts == 3

\* the arguments put after argv[0]
CfgTokens ==
    { "--ub-print", "--ub-no-env", "--ub-add", "--ub-completion-list-tags",
      "--ub-select=foo", "--ub-select=bar", "--ub-reject=foo", "--ub-reject=bar",
      "--ub-select", "--ub-reject=", "--", "--ub-bogus", "make" }

\* the command lines: none at all, or argv[0] and up to MaxOpts arguments
CommandLines ==
    { << >> } \cup
        { << "upbuild" >> \o opts :
              opts \in UNION { [1..n -> CfgTokens] : n \in 0..MaxOpts } }

InitCfg ==
    /\ ExecIdle
    /\ ParseIdle
    /\ fn = "Config::parse"
    /\ input \in CommandLines
    /\ output = None

\* let (args, cfg) = Config::parse(std::env::args())
CallConfigParse ==
    /\ fn = "Config::parse"
    /\ output = None
    /\ output' = Some(Config_parse(input))
    /\ UNCHANGED <<fn, input>>
    /\ UNCHANGED exec_vars
    /\ UNCHANGED parse_vars

SpecCfg == InitCfg /\ [][CallConfigParse]_vars

\* the arguments after argv[0]
given == SubSeq(input, 2, Len(input))

is_select(a) == starts_with(a, "--ub-select=") /\ Len(a) > Len("--ub-select=")

is_reject(a) == starts_with(a, "--ub-reject=") /\ Len(a) > Len("--ub-reject=")

\* the tag an option names
tag_named(a) ==
    IF is_select(a) THEN value_after(a, "--ub-select=")
    ELSE value_after(a, "--ub-reject=")

\* the option among the first n arguments that mentioned tag t last, 0 if none
last_mention(t, n) ==
    LET at == {i \in 1..n : (is_select(given[i]) \/ is_reject(given[i]))
                               /\ tag_named(given[i]) = t}
    IN IF at = {} THEN 0 ELSE CHOOSE i \in at : \A j \in at : j <= i

\* the tags the first n arguments select, and those they reject
selected_by(n) ==
    { tag_named(given[i]) :
        i \in {j \in 1..n : is_select(given[j])
                               /\ last_mention(tag_named(given[j]), n) = j} }

rejected_by(n) ==
    { tag_named(given[i]) :
        i \in {j \in 1..n : is_reject(given[j])
                               /\ last_mention(tag_named(given[j]), n) = j} }

parse_done == fn = "Config::parse" /\ is_some(output)

\* C31: after Config::parse of any sequence of --ub-select=<tag> and
\* --ub-reject=<tag> options the select and reject sets are disjoint: each
\* tag is in the set named by the last option that mentioned it and in no
\* other, and a tag mentioned by one kind of option only stays in that set.
C31_SelectRejectDisjoint ==
    (/\ parse_done
     /\ \A i \in 1..Len(given) : is_select(given[i]) \/ is_reject(given[i])) =>
        LET c == unwrap(output).cfg
        IN /\ c.select \cap c.reject = {}
           /\ c.select = selected_by(Len(given))
           /\ c.reject = rejected_by(Len(given))
           /\ unwrap(output).rest = << >>

\* foo was rejected and then selected: it is selected only
C31_Witness ==
    /\ parse_done
    /\ given = << "--ub-reject=foo", "--ub-select=bar", "--ub-select=foo" >>
    /\ unwrap(output).cfg.select = {"bar", "foo"}
    /\ unwrap(output).cfg.reject = {}

\* an option Config::parse recognizes
recognized(a) ==
    \/ a \in {"--ub-print", "--ub-no-env", "--ub-add", "--ub-completion-list-tags"}
    \/ is_select(a)
    \/ is_reject(a)

\* the number of arguments in the leading run of recognized options
leading == 
    LET stops == {i \in 1..Len(given) : ~recognized(given[i])}
    IN IF stops = {} THEN Len(given)
       ELSE (CHOOSE i \in stops : \A j \in stops : i <= j) - 1

has_option(a, n) == \E i \in 1..n : given[i] = a

\* C32: Config::parse consumes only the leading run of recognized --ub-*
\* options after argv[0]: it stops at the first argument that is not a
\* recognized option, which stays in the remaining arguments, or at a bare
\* `--`, which is consumed; every argument after the stop point is returned
\* verbatim and in order and changes no Config field, whatever it looks
\* like; --ub-select / --ub-reject without `=` or with an empty value count
\* as not recognized.
C32_LeadingOptionsOnly ==
    (parse_done /\ input # << >>) =>
        LET c == unwrap(output).cfg
            n == leading
            from == IF n < Len(given) /\ given[n + 1] = "--" THEN n + 2 ELSE n + 1
        IN /\ unwrap(output).rest = SubSeq(given, from, Len(given))
           /\ c.argv0 = input[1]
           /\ c.print = has_option("--ub-print", n)
           /\ c.skip_env = has_option("--ub-no-env", n)
           /\ c.add = has_option("--ub-add", n)
           /\ is_some(c.completion) = has_option("--ub-completion-list-tags", n)
           /\ c.select = selected_by(n)
           /\ c.reject = rejected_by(n)
           /\ ~recognized("--ub-select") /\ ~recognized("--ub-select=")
           /\ ~recognized("--ub-reject") /\ ~recognized("--ub-reject=")

\* parsing stopped at `--`, which was consumed; the option after it was
\* returned and changed nothing
C32_Witness ==
    /\ parse_done
    /\ given = << "--ub-select=foo", "--", "--ub-print" >>
    /\ unwrap(output).rest = << "--ub-print" >>
    /\ unwrap(output).cfg =
           [ConfigDefault EXCEPT !.select = {"foo"}]

-----------------------------------------------------------------------------
(* src/file.rs: ClassicFile::add, and the manifest it writes read back by  *)
(* run() of src/main.rs.  `input.file` is the content of the manifest      *)
(* (None while it does not exist), `input.given` the calls made so far.    *)

RECURSIVE args_str(_)
\* ClassicFile::add: the fold of the arguments, each followed by a newline
args_str(args) ==
    IF args = << >> THEN ""
    ELSE Head(args) \o "\n" \o args_str(Tail(args))

\* a mutant of add: the separator is written whatever the file holds
add_always_separates(f, args) ==
    IF args_str(args) # ""
    THEN LET old == IF is_some(f) THEN unwrap(f) ELSE ""
         IN Some(old \o "&&\n" \o args_str(args))
    ELSE f

\* ClassicFile::add when no file operation fails: the file as it leaves it
add(f, args) ==
    IF args_str(args) # ""
    THEN LET old == IF is_some(f) THEN unwrap(f) ELSE ""
             pos == Len(old)
         IN Some(old \o (IF pos # 0 THEN "&&\n" ELSE "") \o args_str(args))
    ELSE f

RECURSIVE read_lines(_)
\* BufRead::lines: the text up to each "\n", without it and without a "\r"
\* right before it; an unterminated last line as it is
read_lines(content) ==
    IF content = "" THEN << >>
    ELSE LET i == find_from(content, "\n", 1)
         IN IF i = 0 THEN << content >>
            ELSE LET l == SubSeq(content, 1, i - 1)
                     cut == IF Len(l) > 0 /\ char_at(l, Len(l)) = "\r"
                            THEN SubSeq(l, 1, Len(l) - 1) ELSE l
                 IN << cut >> \o read_lines(SubSeq(content, i + 1, Len(content)))

MaxAdds == 2

InitAdd ==
    /\ ExecIdle
    /\ ParseIdle
    /\ fn = "add"
    /\ input \in { [file |-> f, given |-> << >>] : f \in {None, Some("")} }
    /\ output = None

\* main.rs lines 16-18: ClassicFile::add(args, ".upbuild"); opening the file
\* may fail, and then nothing is written
CallAdd ==
    /\ fn = "add"
    /\ Len(input.given) < MaxAdds
    /\ \E args \in { << >>, << "make" >>, << "make", "all" >>,
                     << "upbuild", "-j8" >>, << "echo", "a\nb" >>, << "x\r" >> },
          res \in {"Ok", "Err"} :
         /\ res = "Err" => args_str(args) # ""
         /\ input' = [file |-> IF res = "Ok" THEN add(input.file, args)
                               ELSE input.file,
                      given |-> Append(input.given, [args |-> args, res |-> res])]
    /\ UNCHANGED <<fn, output>>
    /\ UNCHANGED exec_vars
    /\ UNCHANGED parse_vars

\* main.rs lines 22-25: a later run opens the manifest and reads its lines
ReadManifest ==
    /\ fn = "add"
    /\ is_some(input.file)
    /\ lines' = read_lines(unwrap(input.file))
    /\ fn' = "parse_lines"
    /\ UNCHANGED <<input, output>>
    /\ UNCHANGED <<lineno, entry, entries, header_state, header, parsed>>
    /\ UNCHANGED exec_vars

\* main.rs line 22: then parse_lines on the lines read
NextAdd ==
    \/ CallAdd
    \/ ReadManifest
    \/ fn = "parse_lines" /\ ParseLine
    \/ fn = "parse_lines" /\ ParseEnd

SpecAdd == InitAdd /\ [][NextAdd]_vars

\* the calls that were given arguments and did not fail
is_written(c) == c.res = "Ok" /\ c.args # << >>

\* the argument lists the manifest was given, in call order
lists_written ==
    LET cs == SelectSeq(input.given, is_written)
    IN [k \in 1..Len(cs) |-> cs[k].args]

\* a plain argument: not empty, not `&&`, not starting with `@` or `#`
plain(a) == a # "" /\ a # "&&" /\ ~starts_with(a, "@") /\ ~starts_with(a, "#")

\* an argument that is one line of text: it holds no line feed and does not
\* end in a carriage return
one_line(a) ==
    /\ \A i \in 1..Len(a) : char_at(a, i) # "\n"
    /\ ~(Len(a) > 0 /\ char_at(a, Len(a)) = "\r")

all_plain ==
    \A k \in 1..Len(input.given) :
        \A i \in 1..Len(input.given[k].args) : plain(input.given[k].args[i])

all_one_line ==
    \A k \in 1..Len(input.given) :
        \A i \in 1..Len(input.given[k].args) : one_line(input.given[k].args[i])

\* the manifest, written by one call or more, was read back and parsed
read_back == fn = "parse_lines" /\ is_some(parsed) /\ lists_written # << >>

\* parse_lines yields one task per written list, with its arguments
tasks_as_given ==
    /\ finished_ok
    /\ [k \in 1..Len(commands) |-> commands[k].args] = lists_written

\* what a call leaves of the file: nothing changed for an empty list, else
\* `&&` written exactly when the file was non-empty, then the arguments
add_step ==
    (fn = "add" /\ input' # input) =>
        LET c == input'.given[Len(input'.given)]
            old == IF is_some(input.file) THEN unwrap(input.file) ELSE ""
        IN /\ input'.given = Append(input.given, c)
           /\ c.args = << >> => input'.file = input.file
           /\ is_written(c) =>
                input'.file = Some(old \o (IF old # "" THEN "&&\n" ELSE "")
                                       \o args_str(c.args))

----------------------------------------------------------------------------
(* src/find.rs: find, as run() of src/main.rs calls it.  The directories  *)
(* are FsDirs, seen from Cwd; what varies is the entry named `.upbuild`   *)
(* of each directory on the way up.  No start names a directory called    *)
(* `.upbuild`, so such a directory is looked at and never walked into.    *)

MAX_DEPTH == 128

\* curr is kept as the components of the path: PathBuf::from is components,
\* PathBuf::push of a relative name is Append
\* PathBuf::pop: truncates to the parent, when there is one
pop(c) ==
    IF c = << >> \/ c[Len(c)] = SEP THEN c ELSE SubSeq(c, 1, Len(c) - 1)

\* the directory c names, << >> when c names no directory (the empty path
\* names none)
dir_of(c) == IF c = << >> THEN << >> ELSE resolve(Cwd, c)

\* Path::is_dir
is_dir(c) == dir_of(c) # << >>

\* the entry c names, for c = <directory>/.upbuild
entry_of(c, fs) ==
    LET d == IF Len(c) > 1 THEN dir_of(pop(c)) ELSE << >>
    IN IF Len(c) > 1 /\ c[Len(c)] = ".upbuild" /\ d \in DOMAIN fs
       THEN fs[d] ELSE "none"

readable_always(c, fs) == TRUE

\* readable: File::open(p).is_ok()
readable(c, fs) == entry_of(c, fs) = "file"

\* inode(a) == inode(b): on unix the inode numbers of two directories are
\* equal iff they are one directory; elsewhere an Inode never compares equal
inode_eq(a, b, unix) == unix /\ dir_of(a) = dir_of(b)

Found(kind, p) == [kind |-> kind, path |-> p]

\* the start (`.` is what run() passes), the build, and for each directory
\* on the way up its entry `.upbuild`: nothing, a readable regular file, a
\* regular file File::open fails on, or a directory
InitFind ==
    /\ ExecIdle
    /\ ParseIdle
    /\ fn = "find"
    /\ \E st \in {".", "sub", "..", "sub/../..", "/b", "/", "nodir", ""},
          unix \in BOOLEAN,
          fs \in [{ << SEP >>, << SEP, "w" >>, << SEP, "w", "proj" >>,
                    << SEP, "w", "proj", "sub" >> }
                  -> {"none", "file", "unreadable", "dir"}] :
          input = [start |-> st, unix |-> unix, entries |-> fs]
    /\ output = None

\* find lines 56-59: curr = start; InvalidDir unless it is a directory
FindStart ==
    /\ fn = "find"
    /\ pc = "idle"
    /\ path' = components(input.start)
    /\ IF ~is_dir(components(input.start))
       THEN /\ output' = Some(Found("InvalidDir", input.start))
            /\ pc' = "done"
       ELSE /\ output' = output
            /\ pc' = "look"
    /\ UNCHANGED idx
    /\ UNCHANGED <<fn, input, file, cfg, provided_args, last_dir, calls, result>>
    /\ UNCHANGED parse_vars

\* find lines 61-66: the next iteration of the for loop pushes `.upbuild`,
\* returns the path when it is a readable file, and pops it otherwise
FindLook ==
    /\ fn = "find"
    /\ pc = "look"
    /\ idx < MAX_DEPTH
    /\ idx' = idx + 1
    /\ LET curr == Append(path, ".upbuild")
       IN IF entry_of(curr, input.entries) \in {"file", "unreadable"}   \* is_file
             /\ readable(curr, input.entries)
          THEN /\ path' = curr
               /\ output' = Some(Found("Ok", render(curr)))
               /\ pc' = "done"
          ELSE /\ path' = pop(curr)
               /\ output' = output
               /\ pc' = "up"
    /\ UNCHANGED <<fn, input, file, cfg, provided_args, last_dir, calls, result>>
    /\ UNCHANGED parse_vars

\* find lines 68-77: push `..`; break when that is no directory or the same
\* directory (the root level)
FindUp ==
    /\ fn = "find"
    /\ pc = "up"
    /\ LET curr == Append(path, "..")
       IN /\ path' = curr
          /\ pc' = IF ~is_dir(curr) \/ inode_eq(path, curr, input.unix)
                   THEN "after" ELSE "look"
    /\ UNCHANGED <<idx, output>>
    /\ UNCHANGED <<fn, input, file, cfg, provided_args, last_dir, calls, result>>
    /\ UNCHANGED parse_vars

\* find line 80: the loop ended by break or after MAX_DEPTH iterations
FindNotFound ==
    /\ fn = "find"
    /\ \/ pc = "after"
       \/ pc = "look" /\ idx = MAX_DEPTH
    /\ output' = Some(Found("NotFound", input.start))
    /\ pc' = "done"
    /\ UNCHANGED <<path, idx>>
    /\ UNCHANGED <<fn, input, file, cfg, provided_args, last_dir, calls, result>>
    /\ UNCHANGED parse_vars

NextFind == FindStart \/ FindLook \/ FindUp \/ FindNotFound

SpecFind == InitFind /\ [][NextFind]_vars

----------------------------------------------------------------------------
(* Claims about find.                                                      *)

find_done == fn = "find" /\ pc = "done"

\* the directories at or above the start directory
above_start ==
    LET d == dir_of(components(input.start))
    IN { SubSeq(d, 1, k) : k \in 1..Len(d) }

\* those of them that hold a readable regular file named `.upbuild`
holders ==
    { a \in above_start : a \in DOMAIN input.entries /\ input.entries[a] = "file" }

nearest_holder == CHOOSE a \in holders : \A b \in holders : Len(b) <= Len(a)

\* the path names the entry `.upbuild` of directory d
names_manifest_of(p, d) ==
    LET c == components(p)
    IN /\ Len(c) > 1
       /\ c[Len(c)] = ".upbuild"
       /\ dir_of(pop(c)) = d

is_up(c) == c = ".."

\* the `..` components find has pushed so far
ups_pushed ==
    IF pc = "idle" THEN 0
    ELSE Len(SelectSeq(path, is_up)) - Len(SelectSeq(components(input.start), is_up))

\* where find stands within its iteration
find_pos == IF pc \in {"look", "after"} THEN 1 ELSE IF pc = "done" THEN 2 ELSE 0

\* a measure of the progress of find: the iterations begun, then the
\* position within the iteration
find_rank == 3 * idx + find_pos

\* find has a next step to take
find_can_step ==
    \/ pc \in {"idle", "up", "after"}
    \/ pc = "look" /\ idx <= MAX_DEPTH

find_result ==
    /\ idx <= MAX_DEPTH
    /\ ups_pushed <= idx
    /\ find_rank <= 3 * MAX_DEPTH + 2
    /\ find_done \/ find_can_step
    /\ find_done =>
         /\ is_some(output)
         /\ IF ~is_dir(components(input.start))
            THEN unwrap(output) = Found("InvalidDir", input.start)
            ELSE IF holders # {}
            THEN /\ unwrap(output).kind = "Ok"
                 /\ names_manifest_of(unwrap(output).path, nearest_holder)
            ELSE /\ unwrap(output) = Found("NotFound", input.start)
                 /\ \/ dir_of(path) = << SEP >>
                    \/ idx = MAX_DEPTH

====
